---------------------------- MODULE Spec2Model ----------------------------
(***************************************************************************)
(* RootPainter3D: the tiled volumetric inference engine of the trainer     *)
(* (trainer/model_utils.py), the instruction mailbox between client and    *)
(* trainer, and the client's change-watch loop (root_painter.py).          *)
(*                                                                         *)
(* Three specifications share the variables; each one leaves the other     *)
(* two components in their initial state:                                  *)
(*   Spec       segment_3d: planning, batching, reconstruction             *)
(*   MailSpec   send_instruction against the trainer's main loop           *)
(*   WatchSpec  the client's track_changes / check() polling               *)
(***************************************************************************)
EXTENDS Integers, Sequences, FiniteSets, TLC

\* ------------------------------------------------------------------ bounds
MaxDepth == 2        \* image extents along z are drawn from 1..MaxDepth
MaxHeight == 4       \* image extents along y are drawn from 1..MaxHeight
MaxWidth == 5        \* image extents along x are drawn from 1..MaxWidth
MaxInDepth == 2      \* in_d is drawn from 1..MaxInDepth
MaxInWidth == 4      \* in_w is drawn from 1..MaxInWidth
MaxBatch == 2        \* batch_size is drawn from 1..MaxBatch
MaxClasses == 2      \* the network emits 2 * classes channels, classes in 1..MaxClasses
MaxSends == 3        \* instructions the client sends in one run
MaxClock == 3        \* file modification times are drawn from 1..MaxClock
NumImages == 2       \* images of the project
MaxReconExtent == 3  \* reconstruct_from_tiles: output extents are drawn from 1..MaxReconExtent
MaxReconTiles == 4   \* reconstruct_from_tiles: at most this many tiles
MaxModels == 2       \* ensemble_segment_3d: model_paths has 1..MaxModels entries
MaxPad == 2          \* pad values of a bounded file name are drawn from 0..MaxPad
MaxEnsExtent == 3    \* ensemble_segment_3d: image extents are drawn from 1..MaxEnsExtent
MaxSaves == 5        \* calls of maybe_save_annotation_3d
NumPaths == 2        \* load_model: checkpoint paths
MaxLoads == 3        \* load_model: calls
MaxVersion == 1      \* load_model: a checkpoint file has content 1..MaxVersion
MaxMutations == 1    \* load_model: changes the callers make to the models they got
MaxAnnotSide == 4    \* annotation volumes are cubes of MaxAnnotSide voxels a side
MaxAnnotOps == 2     \* operations applied to one annotation volume
MaxLines == 5        \* calls of log()
TickMs == 125        \* milliseconds that pass in one step of the clock
MaxAnnotFiles == 8   \* images that can get an annotation file
MaxEnsPatch == 3     \* ensemble_segment_3d: in_w is drawn from 1..MaxEnsPatch

None == "None"

Min(a, b) == IF a < b THEN a ELSE b
Max(a, b) == IF a > b THEN a ELSE b
CeilDiv(a, b) == (a + b - 1) \div b

\* ----------------------------------------------------------- numpy arrays
\* A 3-d array is a function from positions <<z, y, x>> (0-based) to values;
\* its shape is (depth, height, width).
Box(shape) ==
    {<<z, y, x>> : z \in 0..(shape[1] - 1), y \in 0..(shape[2] - 1), x \in 0..(shape[3] - 1)}

\* numpy's normalisation of one slice bound i on an axis of length n:
\* a negative bound counts from the end, and every bound is clipped to 0..n.
NormIdx(i, n) == IF i < 0 THEN Max(i + n, 0) ELSE Min(i, n)
\* length of a[lo:hi] on an axis of length n
SliceLen(n, lo, hi) == Max(0, NormIdx(hi, n) - NormIdx(lo, n))
\* shape of a[z0:z1, y0:y1, x0:x1]; lo and hi are (z, y, x) triples
SliceShape(shape, lo, hi) ==
    <<SliceLen(shape[1], lo[1], hi[1]),
      SliceLen(shape[2], lo[2], hi[2]),
      SliceLen(shape[3], lo[3], hi[3])>>
\* a[z0:z1, y0:y1, x0:x1] as an array of its own
Slice(a, shape, lo, hi) ==
    [p \in Box(SliceShape(shape, lo, hi)) |->
        a[<<NormIdx(lo[1], shape[1]) + p[1],
            NormIdx(lo[2], shape[2]) + p[2],
            NormIdx(lo[3], shape[3]) + p[3]>>]]

\* The image under test gives every voxel a value of its own (never 0, the
\* value of np.zeros), so that any tile put in the wrong place, dropped or
\* taken from the wrong window shows in the result: tiling only moves data.
Voxel(p) == 1 + p[1] * 100 + p[2] * 10 + p[3]
ImageOf(shape) == [p \in Box(shape) |-> Voxel(p)]


\* ------------------------------------------------------------------ state
VARIABLES
    image_shape,         \* image.shape, (depth, height, width)
    image,               \* the image's voxels
    in_tile_shape,       \* (in_d, in_w, in_w)
    out_tile_shape,      \* (out_d, out_w, out_w)
    batch_size,
    classes,             \* number of classes of the network
    pc,                  \* where segment_3d is
    out_im_shape,        \* <<>> until computed
    coords,
    coord_idx,
    class_output_tiles,  \* <<>> for None, or one sequence of output tiles per class
    batches,             \* the coords_to_process of every batch so far
    class_pred_maps      \* the result, one map per class (<<>> until returned)

segVars == <<image_shape, image, in_tile_shape, out_tile_shape, batch_size, classes,
             pc, out_im_shape, coords, coord_idx, class_output_tiles, batches,
             class_pred_maps>>

VARIABLES
    instruction_dir,   \* the files of <sync_dir>/instructions: records
                       \*   [id, name ("tmp" or "final"), cmd, complete]
    client_pc,         \* "idle", or where send_instruction is: "writing", "written"
    sending,           \* the id of the instruction being sent (0: none)
    sent,              \* how many instructions have been sent or begun
    trainer_pc,        \* "top", "exec", "delete", "step", "sleep"
    listed,            \* the directory listing the trainer is working through
    cur,               \* the instruction being executed (0: none)
    training,          \* the trainer's training flag
    executed,          \* per instruction id, how many times it was executed
    last_executed,     \* the command executed last ("None" before any)
    read_partial,      \* the trainer has read a file whose content was incomplete
    arrived_in_step,   \* stop instructions put in place during the current step
    arrived_earlier    \* stop instructions put in place during an earlier step

mailVars == <<instruction_dir, client_pc, sending, sent, trainer_pc, listed, cur,
              training, executed, last_executed, read_partial, arrived_in_step,
              arrived_earlier>>

VARIABLES
    project_open,      \* open_project has run
    view_state,        \* ViewState: "BOUNDING_BOX", "LOADING_SEG", "ANNOTATING"
    tracking,          \* self.tracking
    check_timers,      \* pending QTimer.singleShot(500, check) timers
    seg_mtime,         \* self.seg_mtime (NoMtime: None)
    seg_data,          \* self.seg_data: the version loaded (NoSeg: None)
    viewer_seg,        \* the segmentation version the viewers show
    has_seg_path,      \* hasattr(self, 'seg_path')
    seg_path,          \* self.seg_path: the image whose segmentation it names (NoPath: None)
    image_path,        \* the current image
    next_enabled,      \* nav.next_image_button.isEnabled()
    info_label,        \* the text of info_label ("": empty)
    message_dir,       \* the message files of <project>/messages
    bounded,           \* the images that have a bounded image file
    seg_file,          \* per image, the segmentation file: [exists, mtime, partial]
    clock,             \* the file system's clock
    tick_flip,         \* flips at every run of check()
    last_check,        \* how the last run of check() went
    last_listed,       \* the messages that the last run of check() listed
    remove_raised,     \* the messages whose os.remove raised in the last run of check()
    nav_last           \* the last click on a navigation button and what it led to

watchVars == <<project_open, view_state, tracking, check_timers, seg_mtime, seg_data,
               viewer_seg, has_seg_path, seg_path, image_path, next_enabled, info_label,
               message_dir, bounded, seg_file, clock,
                   tick_flip, last_check, last_listed, remove_raised, nav_last>>

VARIABLES
    r_pc,              \* reconstruct_from_tiles: "call" before, "done" after
    r_out_shape,       \* output_shape
    r_tile_shape,      \* the shape of every tile
    r_coords,          \* the planner's coordinates for r_out_shape
    r_order,           \* the sequence passed in: position j holds tile r_order[j]
    r_map              \* the array returned

reconVars == <<r_pc, r_out_shape, r_tile_shape, r_coords, r_order, r_map>>

VARIABLES
    e_pc,              \* ensemble_segment_3d: "start", "loaded", "segmented", "done", "raised"
    model_paths,       \* model_paths: a sequence of models
    e_image_shape,     \* image.shape on entry (input_image_shape)
    e_in_w,            \* in_w
    e_out_w,           \* out_w
    e_in_d,            \* in_d
    e_out_d,           \* out_d
    e_bounded,         \* bounded
    e_fname,           \* fname
    e_cnn,             \* cnn: the model loaded (0: none yet)
    e_runs,            \* the models segment_3d has been run with, in order
    e_pred_shape,      \* pred_maps[0].shape as segment_3d returned it
    e_crop,            \* the crop amounts <<z start, z end, y start, y end, x start, x end>>
    e_result_shape,    \* the shape of the map returned
    e_result,          \* the map returned
    e_error            \* the exception raised ("none": none)

ensVars == <<e_pc, model_paths, e_image_shape, e_in_w, e_out_w, e_in_d, e_out_d, e_bounded,
             e_fname, e_cnn, e_runs, e_pred_shape, e_crop, e_result_shape, e_result,
             e_error>>

VARIABLES
    n_stem,            \* the original image's name without its suffix
    n_pads,            \* the six pads put in the bounded file name
    n_fname,           \* the bounded file name
    n_parsed,          \* the six crop values ensemble_segment_3d read (<<>> until read)
    n_error,           \* the exception its parse raised ("none": none)
    n_original         \* original_name of update_file (<<>> until computed)

nameVars == <<n_stem, n_pads, n_fname, n_parsed, n_error, n_original>>

VARIABLES
    a_pc,              \* maybe_save_annotation_3d: "idle", "write_tmp", "rename", "write_final"
    a_files,           \* the annotation's two names in the annotation directory,
                       \*   "tmp" ('.tmp_' + fname) and "final" (fname):
                       \*   [state ("absent", "partial", "complete"), version]
    a_annot_path,      \* the client's annot_path is set (FALSE: None)
    a_saves,           \* calls of maybe_save_annotation_3d so far
    a_read,            \* the version the trainer read last (0: none)
    a_read_partial,    \* the trainer has read a file that was partially written
    a_mail             \* how the last save_annotation ended: start_training mailed or not

annotVars == <<a_pc, a_files, a_annot_path, a_saves, a_read, a_read_partial, a_mail>>

VARIABLES
    cached_model,      \* the global cached_model: an object of m_heap (NoModel: None)
    cached_model_path, \* the global cached_model_path (NoModelPath: None)
    m_heap,            \* the model objects made so far: [path, version, steps]
    m_disk,            \* per checkpoint path, the content of the file
                       \*   (0: missing or incompatible, torch.load or load_state_dict raises)
    m_held,            \* the objects that load_model has returned to callers
    m_last,            \* the last call of load_model: [kind, path, id]
    m_orig,            \* the model that the call which filled the cache loaded
    m_calls,           \* calls of load_model so far
    m_steps            \* changes made by callers so far

cacheVars == <<cached_model, cached_model_path, m_heap, m_disk, m_held, m_last, m_orig,
               m_calls, m_steps>>

VARIABLES
    an_seg,            \* the voxels where seg_data > 0
    an_bg,             \* the voxels set in annot_data[0], the background plane
    an_fg,             \* the voxels set in annot_data[1], the foreground plane
    an_last,           \* the last operation on annot_data and how it went
    an_ops             \* operations on annot_data so far

annotDataVars == <<an_seg, an_bg, an_fg, an_last, an_ops>>

VARIABLES
    lines_to_log,      \* self.lines_to_log: the lines not written yet
    client_csv,        \* the lines of logs/client.csv
    debounce_active,   \* self.log_debounce.isActive()
    debounce_left,     \* milliseconds until self.log_debounce times out
    log_calls,         \* calls of log() so far
    log_quiet,         \* milliseconds since the last call of log(), up to LogInterval
    last_batch         \* the lines the last log_debounced() wrote

logVars == <<lines_to_log, client_csv, debounce_active, debounce_left, log_calls,
             log_quiet, last_batch>>

VARIABLES
    train_annots,      \* the annotation files under train_annot_dir
    val_annots,        \* the annotation files under val_annot_dir
    target_last        \* the last save of an image without annotation: its
                       \*   file, the counts it found and where it put the file

targetVars == <<train_annots, val_annots, target_last>>

vars == <<segVars, mailVars, watchVars, reconVars, ensVars, nameVars, annotVars,
    cacheVars, annotDataVars, logVars, targetVars>>
notSeg == <<mailVars, watchVars, reconVars, ensVars, nameVars, annotVars, cacheVars,
    annotDataVars, logVars, targetVars>>
notMail == <<segVars, watchVars, reconVars, ensVars, nameVars, annotVars, cacheVars,
    annotDataVars, logVars, targetVars>>
notWatch == <<segVars, mailVars, reconVars, ensVars, nameVars, annotVars, cacheVars,
    annotDataVars, logVars, targetVars>>
notRecon == <<segVars, mailVars, watchVars, ensVars, nameVars, annotVars, cacheVars,
    annotDataVars, logVars, targetVars>>
notEns == <<segVars, mailVars, watchVars, reconVars, nameVars, annotVars, cacheVars,
    annotDataVars, logVars, targetVars>>
notName == <<segVars, mailVars, watchVars, reconVars, ensVars, annotVars, cacheVars,
    annotDataVars, logVars, targetVars>>
notAnnot == <<segVars, mailVars, watchVars, reconVars, ensVars, nameVars, cacheVars,
    annotDataVars, logVars, targetVars>>
notCache == <<segVars, mailVars, watchVars, reconVars, ensVars, nameVars, annotVars,
    annotDataVars, logVars, targetVars>>
notAnnotData == <<segVars, mailVars, watchVars, reconVars, ensVars, nameVars,
    annotVars, cacheVars, logVars, targetVars>>
notLog == <<segVars, mailVars, watchVars, reconVars, ensVars, nameVars, annotVars,
    cacheVars, annotDataVars, targetVars>>
notTarget == <<segVars, mailVars, watchVars, reconVars, ensVars, nameVars, annotVars,
    cacheVars, annotDataVars, logVars>>

\* ------------------------------------------------- Tile Geometry Planner
\* Corner coordinates along one axis of extent V for tiles of extent P:
\* 0, P, 2P, ... while the tile fits, and a last tile right-aligned at V - P
\* when V is not a multiple of P.
AxisCoordsUnclamped(V, P) == [i \in 1..CeilDiv(V, P) |-> (i - 1) * P]
AxisCoords(V, P) ==
    [i \in 1..CeilDiv(V, P) |-> IF i * P <= V THEN (i - 1) * P ELSE V - P]

\* im_utils.get_coords_3d(out_im_shape, out_tile_shape): the ordered corner
\* coordinates (x, y, z), x varying fastest, then y, then z.
get_coords_3d(im_shape, tile_shape) ==
    LET zs == AxisCoords(im_shape[1], tile_shape[1])
        ys == AxisCoords(im_shape[2], tile_shape[2])
        xs == AxisCoords(im_shape[3], tile_shape[3])
        nx == Len(xs)
        ny == Len(ys)
    IN  [i \in 1..(Len(zs) * ny * nx) |->
            <<xs[((i - 1) % nx) + 1],
              ys[(((i - 1) \div nx) % ny) + 1],
              zs[((i - 1) \div (nx * ny)) + 1]>>]

\* ------------------------------------------------ Class Map Reconstructor
\* im_utils.reconstruct_from_tiles(tiles, coords, output_shape): a zero
\* array of output_shape into which each tile is written at its corner, in
\* sequence order, so that a later tile overwrites an earlier one.
WriteTileKeepsFirst(arr, tile, tile_shape, coord) ==
    [p \in DOMAIN arr |->
        LET q == <<p[1] - coord[3], p[2] - coord[2], p[3] - coord[1]>>
        IN  IF q \in Box(tile_shape) /\ arr[p] = 0 THEN tile[q] ELSE arr[p]]
WriteTile(arr, tile, tile_shape, coord) ==
    [p \in DOMAIN arr |->
        LET q == <<p[1] - coord[3], p[2] - coord[2], p[3] - coord[1]>>
        IN  IF q \in Box(tile_shape) THEN tile[q] ELSE arr[p]]

RECURSIVE WriteTiles(_, _, _, _, _)
WriteTiles(arr, tiles, cs, tile_shape, n) ==
    IF n = 0 THEN arr
    ELSE WriteTile(WriteTiles(arr, tiles, cs, tile_shape, n - 1),
                   tiles[n], tile_shape, cs[n])

reconstruct_from_tiles(tiles, cs, output_shape, tile_shape) ==
    WriteTiles([p \in Box(output_shape) |-> 0], tiles, cs, tile_shape,
               Min(Len(tiles), Len(cs)))

\* ------------------------------------------------------------ segment_3d
InPatchShape(d, w) == <<d, w, w>>

\* out_im_shape: the image shape less the depth difference on axis 0 and the
\* difference of axis 1 on both axis 1 and axis 2.
OutImShapeNoMargin(im_shape, in_shape, out_shape) == im_shape
OutImShape(im_shape, in_shape, out_shape) ==
    LET depth_diff == in_shape[1] - out_shape[1]
        width_diff == in_shape[2] - out_shape[2]
    IN  <<im_shape[1] - depth_diff, im_shape[2] - width_diff, im_shape[3] - width_diff>>

\* lines 255-262: coords = im_utils.get_coords_3d(out_im_shape, out_tile_shape)
PlanCoordsWrongTile(im_shape, in_shape, out_shape) ==
    get_coords_3d(OutImShape(im_shape, in_shape, out_shape), in_shape)
PlanCoords(im_shape, in_shape, out_shape) ==
    get_coords_3d(OutImShape(im_shape, in_shape, out_shape), out_shape)

\* the window image[z:z+d, y:y+h, x:x+w] cut for the coordinate (x, y, z)
TileLo(coord) == <<coord[3], coord[2], coord[1]>>
TileHi(coord, in_shape) ==
    <<coord[3] + in_shape[1], coord[2] + in_shape[2], coord[1] + in_shape[3]>>
TileShapeAt(im_shape, coord, in_shape) ==
    SliceShape(im_shape, TileLo(coord), TileHi(coord, in_shape))
InputTile(im, im_shape, coord, in_shape) ==
    Slice(im, im_shape, TileLo(coord), TileHi(coord, in_shape))

\* The network is a fixed function of the input window: its output for
\* class k is out_shape voxels, centred in the window (the valid
\* convolutions eat the margin), each a function of k and of the window.
ClassValue(k, v) == v + 1000 * (k - 1)
CnnOut(k, tile, in_shape, out_shape) ==
    [p \in Box(out_shape) |->
        ClassValue(k, tile[<<p[1] + ((in_shape[1] - out_shape[1]) \div 2),
                             p[2] + ((in_shape[2] - out_shape[2]) \div 2),
                             p[3] + ((in_shape[3] - out_shape[3]) \div 2)>>])]

\* the coordinates of one batch: for _ in range(batch_size), while any is left
BatchEndOneMore(idx, bs, n) == Min(idx + bs + 1, n)
BatchEnd(idx, bs, n) == Min(idx + bs, n)
BatchCoords(cs, idx, bs) == SubSeq(cs, idx + 1, BatchEnd(idx, bs, Len(cs)))

\* for out_tile in pred_np: class_output_tiles[i].append(out_tile)
AppendTilesInFront(acc, outs) == outs \o acc
AppendTiles(acc, outs) == acc \o outs

\* ensemble_segment_3d calls segment_3d(cnn, image, batch_size,
\* (in_d, in_w, in_w), (out_d, out_w, out_w)); the network's output is never
\* larger than its input.
SegInit ==
    /\ \E d \in 1..MaxDepth, h \in 1..MaxHeight, w \in 1..MaxWidth :
          /\ image_shape = <<d, h, w>>
          /\ image = ImageOf(<<d, h, w>>)
    /\ \E in_d \in 1..MaxInDepth, in_w \in 1..MaxInWidth :
          /\ in_tile_shape = InPatchShape(in_d, in_w)
          /\ \E out_d \in 1..in_d, out_w \in 1..in_w :
                out_tile_shape = InPatchShape(out_d, out_w)
    /\ batch_size \in 1..MaxBatch
    /\ classes \in 1..MaxClasses
    /\ pc = "start"
    /\ out_im_shape = <<>>
    /\ coords = <<>>
    /\ coord_idx = 0
    /\ class_output_tiles = <<>>
    /\ batches = <<>>
    /\ class_pred_maps = <<>>

\* lines 250-253: some assert on the image's shape fails (the image has
\* three axes in every call modelled)
ShapeAssertFailsNever(im_shape, in_shape) == FALSE
ShapeAssertFails(im_shape, in_shape) == \E a \in 1..3 : ~(im_shape[a] >= in_shape[a])

\* lines 250-264: the asserts, out_im_shape, the planner's coordinates
Plan ==
    /\ pc = "start"
    /\ IF ShapeAssertFails(image_shape, in_tile_shape)
       THEN /\ pc' = "assert_failed"
            /\ UNCHANGED <<out_im_shape, coords>>
       ELSE /\ out_im_shape' = OutImShape(image_shape, in_tile_shape, out_tile_shape)
            /\ coords' = PlanCoords(image_shape, in_tile_shape, out_tile_shape)
            /\ pc' = "loop"
    /\ coord_idx' = 0
    /\ class_output_tiles' = <<>>
    /\ UNCHANGED <<image_shape, image, in_tile_shape, out_tile_shape, batch_size,
                   classes, batches, class_pred_maps>>
    /\ UNCHANGED notSeg

\* lines 266-317: one pass of `while coord_idx < len(coords)`: cut up to
\* batch_size tiles (each asserted to have the input shape), run the
\* network, append every class's output tiles in batch order
Batch ==
    /\ pc = "loop"
    /\ coord_idx < Len(coords)
    /\ LET coords_to_process == BatchCoords(coords, coord_idx, batch_size)
           n == Len(coords_to_process)
       IN  IF \E j \in 1..n :
                 TileShapeAt(image_shape, coords_to_process[j], in_tile_shape)
                     # in_tile_shape
           THEN /\ pc' = "assert_failed"
                /\ UNCHANGED <<coord_idx, class_output_tiles, batches>>
           ELSE /\ coord_idx' = coord_idx + n
                /\ batches' = Append(batches, coords_to_process)
                /\ class_output_tiles' =
                      [k \in 1..classes |->
                          AppendTiles(
                              IF class_output_tiles = <<>> THEN <<>>
                              ELSE class_output_tiles[k],
                              [j \in 1..n |->
                                  CnnOut(k,
                                         InputTile(image, image_shape,
                                                   coords_to_process[j], in_tile_shape),
                                         in_tile_shape, out_tile_shape)])]
                /\ pc' = "loop"
    /\ UNCHANGED <<image_shape, image, in_tile_shape, out_tile_shape, batch_size,
                   classes, out_im_shape, coords, class_pred_maps>>
    /\ UNCHANGED notSeg

\* lines 319-325: the loop is over; reconstruct one map per class
Reconstruct ==
    /\ pc = "loop"
    /\ ~(coord_idx < Len(coords))
    /\ class_pred_maps' =
          [k \in 1..classes |->
              reconstruct_from_tiles(class_output_tiles[k], coords, out_im_shape,
                                     out_tile_shape)]
    /\ pc' = "done"
    /\ UNCHANGED <<image_shape, image, in_tile_shape, out_tile_shape, batch_size,
                   classes, out_im_shape, coords, coord_idx, class_output_tiles,
                   batches>>
    /\ UNCHANGED notSeg

SegNext == Plan \/ Batch \/ Reconstruct

\* a fixed call, for the specifications that are not about segment_3d
SegIdle ==
    /\ image_shape = <<1, 1, 1>>
    /\ image = ImageOf(<<1, 1, 1>>)
    /\ in_tile_shape = <<1, 1, 1>>
    /\ out_tile_shape = <<1, 1, 1>>
    /\ batch_size = 1
    /\ classes = 1
    /\ pc = "start"
    /\ out_im_shape = <<>>
    /\ coords = <<>>
    /\ coord_idx = 0
    /\ class_output_tiles = <<>>
    /\ batches = <<>>
    /\ class_pred_maps = <<>>

\* ---------------------------------------------------- Instruction Mailbox
Commands == {"start_training", "stop_training"}
Ids == 1..MaxSends

MailInit ==
    /\ instruction_dir = {}
    /\ client_pc = "idle"
    /\ sending = 0
    /\ sent = 0
    /\ trainer_pc = "top"
    /\ listed = <<>>
    /\ cur = 0
    /\ training = FALSE
    /\ executed = [i \in Ids |-> 0]
    /\ last_executed = None
    /\ read_partial = FALSE
    /\ arrived_in_step = {}
    /\ arrived_earlier = {}

trainerVars == <<trainer_pc, listed, cur, training, executed, last_executed,
                 read_partial, arrived_earlier>>

\* send_instruction(command, content): the content goes to a uniquely named
\* file under a temporary name, which is renamed into place once written.
WriteNameDirect == "final"
WriteName == "tmp"

\* open the file and start writing: it exists with part of its content
SendOpen(cmd) ==
    /\ client_pc = "idle"
    /\ sent < MaxSends
    /\ sent' = sent + 1
    /\ sending' = sent + 1
    /\ instruction_dir' = instruction_dir \cup
          {[id |-> sent + 1, name |-> WriteName, cmd |-> cmd, complete |-> FALSE]}
    /\ client_pc' = "writing"
    /\ UNCHANGED <<trainerVars, arrived_in_step>>
    /\ UNCHANGED notMail

\* RootPainter.stop_training: send_instruction('stop_training', content)
stop_training == SendOpen("stop_training")
\* RootPainter.start_training: send_instruction('start_training', content)
start_training == SendOpen("start_training")

\* the rest of the content is written and the file closed
SendWrite ==
    /\ client_pc = "writing"
    /\ instruction_dir' =
          {IF f.id = sending THEN [f EXCEPT !.complete = TRUE] ELSE f :
              f \in instruction_dir}
    /\ client_pc' = "written"
    /\ UNCHANGED <<sending, sent, trainerVars, arrived_in_step>>
    /\ UNCHANGED notMail

\* the file is renamed to its final name (a no-op if it was written there)
SendRename ==
    /\ client_pc = "written"
    /\ instruction_dir' =
          {IF f.id = sending THEN [f EXCEPT !.name = "final"] ELSE f :
              f \in instruction_dir}
    /\ arrived_in_step' =
          IF trainer_pc = "step"
             /\ \E f \in instruction_dir : f.id = sending /\ f.cmd = "stop_training"
          THEN arrived_in_step \cup {sending}
          ELSE arrived_in_step
    /\ client_pc' = "idle"
    /\ sending' = 0
    /\ UNCHANGED <<sent, trainerVars>>
    /\ UNCHANGED notMail

\* ----------------------------------------------------------- Training Loop
\* trainer.main_loop(): while True: check for instructions; if training, run
\* a training step, else sleep.
Perms(S) ==
    {f \in [1..Cardinality(S) -> S] : \A i, j \in 1..Cardinality(S) : i # j => f[i] # f[j]}

\* top of the loop: list the instructions directory, in whatever order the
\* file system gives; files under a temporary name are not instructions
CheckForInstructions ==
    /\ trainer_pc = "top"
    /\ listed' \in Perms({f.id : f \in {g \in instruction_dir : g.name = "final"}})
    /\ trainer_pc' = "exec"
    /\ UNCHANGED <<instruction_dir, client_pc, sending, sent, cur, training, executed,
                   last_executed, read_partial, arrived_in_step, arrived_earlier>>
    /\ UNCHANGED notMail

\* take the next listed instruction, one at a time: read it and execute it
ExecuteInstruction ==
    /\ trainer_pc = "exec"
    /\ listed # <<>>
    /\ LET f == CHOOSE g \in instruction_dir : g.id = Head(listed)
       IN  /\ cur' = f.id
           /\ IF f.complete
              THEN /\ training' = (f.cmd = "start_training")
                   /\ executed' = [executed EXCEPT ![f.id] = @ + 1]
                   /\ last_executed' = f.cmd
                   /\ UNCHANGED read_partial
              ELSE /\ read_partial' = TRUE
                   /\ UNCHANGED <<training, executed, last_executed>>
    /\ trainer_pc' = "delete"
    /\ UNCHANGED <<instruction_dir, client_pc, sending, sent, listed, arrived_in_step,
                   arrived_earlier>>
    /\ UNCHANGED notMail

\* what is left of the directory once the processed instruction is deleted
RemoveKeeps(dir, id) == dir
Remove(dir, id) == {f \in dir : f.id # id}

\* the instruction is deleted after processing
DeleteInstruction ==
    /\ trainer_pc = "delete"
    /\ instruction_dir' = Remove(instruction_dir, cur)
    /\ listed' = Tail(listed)
    /\ cur' = 0
    /\ trainer_pc' = "exec"
    /\ UNCHANGED <<client_pc, sending, sent, training, executed, last_executed,
                   read_partial, arrived_in_step, arrived_earlier>>
    /\ UNCHANGED notMail

\* whether the loop runs a training step after its check
StepsWhenever(flag) == TRUE
StartsStep(flag) == flag

\* all listed instructions are processed: train one step, or sleep
FinishCheck ==
    /\ trainer_pc = "exec"
    /\ listed = <<>>
    /\ trainer_pc' = IF StartsStep(training) THEN "step" ELSE "sleep"
    /\ UNCHANGED <<instruction_dir, client_pc, sending, sent, listed, cur, training,
                   executed, last_executed, read_partial, arrived_in_step,
                   arrived_earlier>>
    /\ UNCHANGED notMail

\* the training step, or the sleep, is over: back to the top of the loop
FinishStep ==
    /\ trainer_pc \in {"step", "sleep"}
    /\ trainer_pc' = "top"
    /\ arrived_earlier' = arrived_earlier \cup arrived_in_step
    /\ arrived_in_step' = {}
    /\ UNCHANGED <<instruction_dir, client_pc, sending, sent, listed, cur, training,
                   executed, last_executed, read_partial>>
    /\ UNCHANGED notMail

MailNext ==
    \/ stop_training
    \/ start_training
    \/ SendWrite
    \/ SendRename
    \/ CheckForInstructions
    \/ ExecuteInstruction
    \/ DeleteInstruction
    \/ FinishCheck
    \/ FinishStep

\* ------------------------------------------------- client: RootPainter
NoMtime == -1        \* seg_mtime = None
NoSeg == 0           \* seg_data = None
NoPath == 0          \* seg_path = None

Images == 1..NumImages
Messages == {"m1", "m2"}

\* no navigation button clicked yet
NoClick == [button |-> "none", before_change |-> "not_called", file_change |-> FALSE]

\* the state __init__ leaves, on an empty project directory
WatchInit ==
    /\ project_open = FALSE
    /\ view_state = "BOUNDING_BOX"
    /\ tracking = FALSE
    /\ check_timers = 0
    /\ seg_mtime = NoMtime
    /\ seg_data = NoSeg
    /\ viewer_seg = NoSeg
    /\ has_seg_path = FALSE
    /\ seg_path = NoPath
    /\ image_path = 0
    /\ next_enabled = TRUE
    /\ info_label = ""
    /\ message_dir = {}
    /\ bounded = {}
    /\ seg_file = [i \in Images |-> [exists |-> FALSE, mtime |-> 0, partial |-> FALSE]]
    /\ clock = 0
    /\ tick_flip = FALSE
    /\ last_check = "none"
    /\ last_listed = {}
    /\ remove_raised = {}
    /\ nav_last = NoClick

fsVars == <<message_dir, bounded, seg_file, clock>>

\* os.path.isfile(self.seg_path), for seg_path sp
IsFile(sp) == sp # NoPath /\ seg_file[sp].exists
\* im_utils.load_seg raises on a file that is still being written
LoadRaises(sp) == seg_file[sp].partial
\* what im_utils.load_seg returns: the content, named by the time of its writing
LoadSeg(sp) == seg_file[sp].mtime

\* track_changes(): start the chain of check() timers unless already tracking
TimersAlwaysAdded(tr, timers) == timers + 1
TimersAfterTrack(tr, timers) == IF tr THEN timers ELSE timers + 1

\* update_file, line 192: self.view_state = ViewState.BOUNDING_BOX, whatever
\* the state was
ViewStateKept(vs) == vs
ViewStateReset(vs) == "BOUNDING_BOX"

\* update_file(fpath), for the image i; btn is the state of the Next button
\* on entry.  The segmentation is looked for under the bounded image's name.
\* load_seg is called outside any try: if it raises, update_file ends there.
UpdateFile(i, btn) ==
    LET sp == IF i \in bounded THEN i ELSE NoPath
    IN  /\ image_path' = i
        /\ has_seg_path' = TRUE
        /\ seg_path' = sp
        /\ IF IsFile(sp)
           THEN IF LoadRaises(sp)
                THEN /\ view_state' = ViewStateReset(view_state)
                     /\ next_enabled' = btn
                     /\ UNCHANGED <<seg_data, seg_mtime, viewer_seg>>
                ELSE /\ seg_data' = LoadSeg(sp)
                     /\ view_state' = "ANNOTATING"
                     /\ seg_mtime' = seg_file[sp].mtime
                     /\ next_enabled' = TRUE
                     /\ viewer_seg' = LoadSeg(sp)
           ELSE /\ view_state' = ViewStateReset(view_state)
                /\ seg_data' = NoSeg
                /\ viewer_seg' = NoSeg
                /\ next_enabled' = btn
                /\ UNCHANGED seg_mtime

\* open_project: the current image is the last one with a segmentation, else
\* the first; init_active_project_ui shows it with update_file; tracking
\* starts if that left the client ANNOTATING
WithSeg == {i \in Images : seg_file[i].exists}
OpenProject ==
    /\ ~project_open
    /\ project_open' = TRUE
    /\ LET fname == IF WithSeg # {} THEN CHOOSE i \in WithSeg : \A j \in WithSeg : j <= i
                    ELSE 1
       IN  UpdateFile(fname, TRUE)
    /\ IF view_state' = "ANNOTATING"
       THEN /\ tracking' = TRUE
            /\ check_timers' = TimersAfterTrack(tracking, check_timers)
       ELSE UNCHANGED <<tracking, check_timers>>
    /\ UNCHANGED <<info_label, fsVars,
                   tick_flip, last_check, last_listed, remove_raised, nav_last>>
    /\ UNCHANGED notWatch

\* NavWidget.show_next_image / update_to_next_image.  proceed: what
\* before_change() (before_nav_change: one region, or the user's Yes)
\* returns.  On True the Next button is disabled, the next image (wrapping
\* round) becomes current, file_change is emitted and update_file runs.
ShowNextImage(proceed) ==
    /\ project_open
    /\ next_enabled
    /\ IF proceed
       THEN /\ UpdateFile(IF image_path + 1 > NumImages THEN 1 ELSE image_path + 1, FALSE)
            /\ nav_last' = [button |-> "next", before_change |-> "True",
                            file_change |-> TRUE]
       ELSE /\ nav_last' = [button |-> "next", before_change |-> "False",
                            file_change |-> FALSE]
            /\ UNCHANGED <<view_state, seg_mtime, seg_data, viewer_seg, has_seg_path,
                           seg_path, image_path, next_enabled>>
    /\ UNCHANGED <<project_open, tracking, check_timers, info_label, fsVars,
                   tick_flip, last_check, last_listed, remove_raised>>
    /\ UNCHANGED notWatch

\* NavWidget.show_prev_image: before_change is not called; the previous
\* image becomes current, file_change is emitted and update_file runs
ShowPrevImage ==
    /\ project_open
    /\ UpdateFile(IF image_path - 1 <= 1 THEN 1 ELSE image_path - 1, next_enabled)
    /\ nav_last' = [button |-> "prev", before_change |-> "not_called",
                    file_change |-> TRUE]
    /\ UNCHANGED <<project_open, tracking, check_timers, info_label, fsVars,
                   tick_flip, last_check, last_listed, remove_raised>>
    /\ UNCHANGED notWatch

\* set_seg_loading(): from drawing the bounding box to loading the segmentation
SetSegLoading ==
    /\ project_open
    /\ seg_mtime' = NoMtime
    /\ next_enabled' = FALSE
    /\ view_state' = "LOADING_SEG"
    /\ UNCHANGED <<project_open, tracking, check_timers, seg_data, viewer_seg,
                   has_seg_path, seg_path, image_path, info_label, fsVars,
                   tick_flip, last_check, last_listed, remove_raised, nav_last>>
    /\ UNCHANGED notWatch

\* track_changes(), called once the bounding box is applied
TrackChanges ==
    /\ project_open
    /\ tracking' = TRUE
    /\ check_timers' = TimersAfterTrack(tracking, check_timers)
    /\ UNCHANGED <<project_open, view_state, seg_mtime, seg_data, viewer_seg,
                   has_seg_path, seg_path, image_path, next_enabled, info_label, fsVars,
                   tick_flip, last_check, last_listed, remove_raised, nav_last>>
    /\ UNCHANGED notWatch

\* the timers pending after a run of check() that reached its last line
Rearm(timers) == (timers - 1) + 1

\* the segmentation check of check(): a file at seg_path, never loaded or
\* modified since the last load
SegIsNewNeverLoaded ==
    /\ has_seg_path
    /\ IsFile(seg_path)
    /\ seg_mtime = NoMtime
SegIsNew ==
    /\ has_seg_path
    /\ IsFile(seg_path)
    /\ (seg_mtime = NoMtime \/ seg_file[seg_path].mtime > seg_mtime)

\* what a message file holds (check() never opens it)
Contents(m) == IF m = "m1" THEN "text of m1" ELSE "text of m2"
\* self.info_label.setText(m), m one of the names os.listdir returned: every
\* name is set in turn, the one listed last stays
LabelTextContents(m) == Contents(m)
LabelText(m) == m

\* check(): one tick of the watch loop.  os.listdir is outside any try: if
\* it raises, check() ends there, before the segmentation check and before
\* the timer is set again.  Each message is shown and removed (a failure to
\* remove, which leaves the file, is caught); a new segmentation is loaded
\* (a failure to load is caught).
Check ==
    /\ check_timers > 0
    /\ tick_flip' = ~tick_flip
    /\ \E listdir_raises \in BOOLEAN :
         IF listdir_raises
         THEN /\ check_timers' = check_timers - 1
              /\ last_check' = "listdir_raised"
              /\ last_listed' = {}
              /\ remove_raised' = {}
              /\ UNCHANGED <<info_label, message_dir, seg_data, viewer_seg, view_state,
                             seg_mtime, next_enabled>>
         ELSE /\ check_timers' = Rearm(check_timers)
              /\ IF message_dir = {} THEN UNCHANGED info_label
                 ELSE \E m \in message_dir : info_label' = LabelText(m)
              /\ message_dir' \in SUBSET message_dir
              /\ last_listed' = message_dir
              /\ remove_raised' = message_dir'
              /\ IF SegIsNew
                 THEN IF LoadRaises(seg_path)
                      THEN /\ last_check' = "load_raised"
                           /\ UNCHANGED <<seg_data, viewer_seg, view_state, seg_mtime,
                                          next_enabled>>
                      ELSE /\ seg_data' = LoadSeg(seg_path)
                           /\ viewer_seg' = LoadSeg(seg_path)
                           /\ view_state' = "ANNOTATING"
                           /\ seg_mtime' = seg_file[seg_path].mtime
                           /\ next_enabled' = TRUE
                           /\ last_check' = "reloaded"
                 ELSE /\ last_check' = "kept"
                      /\ UNCHANGED <<seg_data, viewer_seg, view_state, seg_mtime,
                                     next_enabled>>
    /\ UNCHANGED <<project_open, tracking, has_seg_path, seg_path, image_path,
                   bounded, seg_file, clock, nav_last>>
    /\ UNCHANGED notWatch

clientVars == <<project_open, view_state, tracking, check_timers, seg_mtime, seg_data,
                viewer_seg, has_seg_path, seg_path, image_path, next_enabled, info_label,
                   tick_flip, last_check, last_listed, remove_raised, nav_last>>

\* ---- the file system around the client
\* a bounded image is saved for image i
AddBounded(i) ==
    /\ i \notin bounded
    /\ bounded' = bounded \cup {i}
    /\ UNCHANGED <<clientVars, message_dir, seg_file, clock>>
    /\ UNCHANGED notWatch

\* the trainer, which writes one file at a time, starts writing the
\* segmentation of bounded image i
SegWriteStart(i) ==
    /\ i \in bounded
    /\ clock < MaxClock
    /\ \A j \in Images : ~seg_file[j].partial
    /\ clock' = clock + 1
    /\ seg_file' = [seg_file EXCEPT ![i] =
                       [exists |-> TRUE, mtime |-> clock + 1, partial |-> TRUE]]
    /\ UNCHANGED <<clientVars, message_dir, bounded>>
    /\ UNCHANGED notWatch

\* the trainer has written it all
SegWriteEnd(i) ==
    /\ seg_file[i].partial
    /\ seg_file' = [seg_file EXCEPT ![i].partial = FALSE]
    /\ UNCHANGED <<clientVars, message_dir, bounded, clock>>
    /\ UNCHANGED notWatch

\* the trainer writes a message file
WriteMessage(m) ==
    /\ m \notin message_dir
    /\ message_dir' = message_dir \cup {m}
    /\ UNCHANGED <<clientVars, bounded, seg_file, clock>>
    /\ UNCHANGED notWatch

\* the user at work and the trainer writing segmentations (the trainer sends
\* no message: the message directory stays empty)
WatchNext ==
    \/ OpenProject
    \/ \E proceed \in BOOLEAN : ShowNextImage(proceed)
    \/ ShowPrevImage
    \/ SetSegLoading
    \/ TrackChanges
    \/ Check
    \/ \E i \in Images : AddBounded(i)
    \/ \E i \in Images : SegWriteStart(i)
    \/ \E i \in Images : SegWriteEnd(i)

\* the trainer sending messages and writing segmentations while the user
\* stays on the image the project opened with
MsgNext ==
    \/ OpenProject
    \/ TrackChanges
    \/ Check
    \/ \E i \in Images : AddBounded(i)
    \/ \E i \in Images : SegWriteStart(i)
    \/ \E i \in Images : SegWriteEnd(i)
    \/ \E m \in Messages : WriteMessage(m)

\* ------------------------------- reconstruct_from_tiles on its own
\* The tile of the coordinate numbered n: its own content at every voxel.
TileContent(n, tile_shape) == [q \in Box(tile_shape) |-> n * 1000 + Voxel(q)]

ReconInit ==
    /\ r_pc = "call"
    /\ \E d, h, w \in 1..MaxReconExtent : r_out_shape = <<d, h, w>>
    /\ \E td \in 1..r_out_shape[1], th \in 1..r_out_shape[2], tw \in 1..r_out_shape[3] :
          r_tile_shape = <<td, th, tw>>
    /\ r_coords = get_coords_3d(r_out_shape, r_tile_shape)
    /\ Len(r_coords) <= MaxReconTiles
    /\ r_order = <<>>
    /\ r_map = <<>>

ReconIdle ==
    /\ r_pc = "call"
    /\ r_out_shape = <<1, 1, 1>>
    /\ r_tile_shape = <<1, 1, 1>>
    /\ r_coords = <<>>
    /\ r_order = <<>>
    /\ r_map = <<>>

\* reconstruct_from_tiles(tiles, coords, output_shape), the tiles and their
\* coordinates passed in any sequence order (segment_3d passes the planner's)
ReconstructFromTiles ==
    /\ r_pc = "call"
    /\ \E order \in Perms(1..Len(r_coords)) :
          /\ r_order' = order
          /\ r_map' = reconstruct_from_tiles(
                          [j \in 1..Len(order) |-> TileContent(order[j], r_tile_shape)],
                          [j \in 1..Len(order) |-> r_coords[order[j]]],
                          r_out_shape, r_tile_shape)
    /\ r_pc' = "done"
    /\ UNCHANGED <<r_out_shape, r_tile_shape, r_coords>>
    /\ UNCHANGED notRecon

ReconNext == ReconstructFromTiles

\* ------------------------------------------------- bounded file names
\* A file name is a sequence of pieces: "_", or a piece that holds no
\* underscore (a word, the decimal form of a number, the suffix ".nii.gz").
NumStr == <<"0", "1", "2", "3", "4", "5", "6", "7", "8", "9", "10",
            "11", "12", "13", "14", "15", "16", "17", "18", "19", "20">>
\* str(n) inside an f-string
Str(n) == NumStr[n + 1]
IsIntText(t) == \E n \in 1..Len(NumStr) : NumStr[n] = t
\* int(text), for a text it accepts
IntOf(t) == (CHOOSE n \in 1..Len(NumStr) : NumStr[n] = t) - 1

\* fname.replace('.nii.gz', '')
RECURSIVE StripSuffix(_)
StripSuffix(name) ==
    IF name = <<>> THEN <<>>
    ELSE IF Head(name) = ".nii.gz" THEN StripSuffix(Tail(name))
    ELSE <<Head(name)>> \o StripSuffix(Tail(name))

\* name.split('_'): the runs of pieces between underscores, empty runs too
RECURSIVE SplitUnderscore(_)
SplitUnderscore(name) ==
    IF \A i \in 1..Len(name) : name[i] # "_" THEN <<name>>
    ELSE LET i == CHOOSE k \in 1..Len(name) :
                      name[k] = "_" /\ \A j \in 1..(k - 1) : name[j] # "_"
         IN  <<SubSeq(name, 1, i - 1)>> \o SplitUnderscore(SubSeq(name, i + 1, Len(name)))

\* parts[-k]
FromEnd(parts, k) == parts[Len(parts) - k + 1]
\* int(token) raises ValueError unless the token is the text of an integer
IntRaises(token) == ~(Len(token) = 1 /\ IsIntText(token[1]))
IntToken(token) == IntOf(token[1])

\* the positions from the end that ensemble_segment_3d reads, in the order
\* it reads them: x start, x end, y start, y end, z start, z end
PadPositionsShifted == <<9, 8, 6, 5, 3, 2>>
PadPositions == <<8, 7, 5, 4, 2, 1>>

\* lines 167-173: the exception raised by the parse, or "none"
ParseError(fname) ==
    LET parts == SplitUnderscore(StripSuffix(fname))
    IN  IF \E i \in 1..6 : /\ \A j \in 1..(i - 1) :
                                 /\ Len(parts) >= PadPositions[j]
                                 /\ ~IntRaises(FromEnd(parts, PadPositions[j]))
                           /\ Len(parts) < PadPositions[i]
        THEN "IndexError"
        ELSE IF \E i \in 1..6 : IntRaises(FromEnd(parts, PadPositions[i]))
        THEN "ValueError"
        ELSE "none"
\* lines 167-173: <<x start, x end, y start, y end, z start, z end>>
ParsePads(fname) ==
    LET parts == SplitUnderscore(StripSuffix(fname))
    IN  [i \in 1..6 |-> IntToken(FromEnd(parts, PadPositions[i]))]

\* ------------------------------------------------- ensemble_segment_3d
\* what the network loaded from a model predicts for an output voxel
ModelPred(model, p) == model * 1000 + Voxel(p)
PredMap(model, shape) == [p \in Box(shape) |-> ModelPred(model, p)]

\* im_utils.pad_3d(image, width, depth): depth more voxels on either side of
\* axis 0 and width more on either side of axes 1 and 2
pad_3d_shape(shape, width, depth) ==
    <<shape[1] + 2 * depth, shape[2] + 2 * width, shape[3] + 2 * width>>

\* the bounded file name the client builds for a stem, a box and six pads
\* (the convention quoted at lines 159-164)
BoundedName(stem, box, pads) ==
    stem \o <<"_", "x", "_", Str(box[1]), "_", "y", "_", Str(box[2]),
              "_", "z", "_", Str(box[3]), "_", "pad",
              "_", "x", "_", Str(pads[1]), "_", Str(pads[2]),
              "_", "y", "_", Str(pads[3]), "_", Str(pads[4]),
              "_", "z", "_", Str(pads[5]), "_", Str(pads[6]), ".nii.gz">>

\* names that do not follow the convention
MalformedNames ==
    {<<"img", ".nii.gz">>,
     <<"img", "_", "3", "_", "0", "_", "y", "_", "1", "_", "0", "_", "z", "_", "0", "_",
       "1", ".nii.gz">>,
     <<"img", "_", "x", "_", "10", "_", "y", "_", "20", "_", "z", "_", "5", "_", "pad",
       "_", "x", "_", "a", "_", "0", "_", "y", "_", "0", "_", "0", "_", "z", "_", "0",
       "_", "0", ".nii.gz">>}

\* the six pads <<x start, x end, y start, y end, z start, z end>> tried:
\* start and end differ on every axis and no two axes agree, for three
\* values a, b, c
PadsTried == {<<a, b, c, a, b, c>> : a, b, c \in 0..MaxPad}

EnsInit ==
    /\ e_pc = "start"
    /\ \E n \in 1..MaxModels : model_paths = [i \in 1..n |-> i]
    /\ e_in_d \in 1..2
    /\ e_out_d \in 1..e_in_d
    /\ e_in_w \in 1..MaxEnsPatch
    /\ e_out_w \in 1..e_in_w
    /\ \E d \in 1..2, h, w \in 1..MaxEnsExtent :
          /\ d >= e_in_d /\ h >= e_in_w /\ w >= e_in_w
          /\ e_image_shape = <<d, h, w>>
    /\ e_bounded \in BOOLEAN
    /\ IF e_bounded
       THEN \/ \E pads \in PadsTried :
                  e_fname = BoundedName(<<"img">>, <<10, 20, 5>>, pads)
            \/ e_fname \in MalformedNames
       ELSE e_fname = <<"img", ".nii.gz">>
    /\ e_cnn = 0
    /\ e_runs = <<>>
    /\ e_pred_shape = <<>>
    /\ e_crop = <<>>
    /\ e_result_shape = <<>>
    /\ e_result = <<>>
    /\ e_error = "none"

EnsIdle ==
    /\ e_pc = "start"
    /\ model_paths = <<1>>
    /\ e_in_d = 1 /\ e_out_d = 1 /\ e_in_w = 1 /\ e_out_w = 1
    /\ e_image_shape = <<1, 1, 1>>
    /\ e_bounded = FALSE
    /\ e_fname = <<"img", ".nii.gz">>
    /\ e_cnn = 0
    /\ e_runs = <<>>
    /\ e_pred_shape = <<>>
    /\ e_crop = <<>>
    /\ e_result_shape = <<>>
    /\ e_result = <<>>
    /\ e_error = "none"

ensInputs == <<model_paths, e_image_shape, e_in_w, e_out_w, e_in_d, e_out_d, e_bounded,
               e_fname>>

\* line 140: cnn = load_model(model_paths[0], classes)
ModelsLoaded(paths) == <<paths[1]>>

LoadModel ==
    /\ e_pc = "start"
    /\ e_cnn' = ModelsLoaded(model_paths)[1]
    /\ e_pc' = "loaded"
    /\ UNCHANGED <<ensInputs, e_runs, e_pred_shape, e_crop, e_result_shape, e_result,
                   e_error>>
    /\ UNCHANGED notEns

\* lines 141-157: pad unless bounded, segment_3d once, check the shape
PadAndSegment ==
    /\ e_pc = "loaded"
    /\ LET in_patch_shape == InPatchShape(e_in_d, e_in_w)
           out_patch_shape == InPatchShape(e_out_d, e_out_w)
           depth_diff == in_patch_shape[1] - out_patch_shape[1]
           width_diff == in_patch_shape[3] - out_patch_shape[3]
           image_shape_seg == IF e_bounded THEN e_image_shape
                              ELSE pad_3d_shape(e_image_shape, width_diff \div 2,
                                                depth_diff \div 2)
           shape == OutImShape(image_shape_seg, in_patch_shape, out_patch_shape)
       IN  /\ e_runs' = Append(e_runs, e_cnn)
           /\ e_pred_shape' = shape
           /\ IF ~e_bounded /\ shape # e_image_shape
              THEN e_error' = "AssertionError" /\ e_pc' = "raised"
              ELSE e_error' = "none" /\ e_pc' = "segmented"
    /\ UNCHANGED <<ensInputs, e_cnn, e_crop, e_result_shape, e_result>>
    /\ UNCHANGED notEns

\* the adjusted crop amounts (lines 175-184), from the six pads
\* <<x start, x end, y start, y end, z start, z end>>
ResolveCrop(pads, depth_diff, height_diff, width_diff) ==
    <<pads[5] - (depth_diff \div 2), pads[6] - (depth_diff \div 2),
      pads[3] - (height_diff \div 2), pads[4] - (height_diff \div 2),
      pads[1] - (width_diff \div 2), pads[2] - (width_diff \div 2)>>

\* lines 186-189: pred_map[zs:shape[0] - ze, ys:shape[1] - ye, xs:shape[2] - xe]
CropLo(crop) == <<crop[1], crop[3], crop[5]>>
CropHi(shape, crop) == <<shape[1] - crop[2], shape[2] - crop[4], shape[3] - crop[6]>>

\* lines 166-192: parse the name and crop if bounded, and return
CropAndReturn ==
    /\ e_pc = "segmented"
    /\ IF ~e_bounded
       THEN /\ e_result' = PredMap(e_cnn, e_pred_shape)
            /\ e_result_shape' = e_pred_shape
            /\ e_pc' = "done"
            /\ UNCHANGED <<e_crop, e_error>>
       ELSE IF ParseError(e_fname) # "none"
       THEN /\ e_error' = ParseError(e_fname)
            /\ e_pc' = "raised"
            /\ UNCHANGED <<e_crop, e_result, e_result_shape>>
       ELSE LET crop == ResolveCrop(ParsePads(e_fname), e_in_d - e_out_d,
                                    e_in_w - e_out_w, e_in_w - e_out_w)
            IN  /\ e_crop' = crop
                /\ e_result_shape' =
                      SliceShape(e_pred_shape, CropLo(crop), CropHi(e_pred_shape, crop))
                /\ e_result' = Slice(PredMap(e_cnn, e_pred_shape), e_pred_shape,
                                     CropLo(crop), CropHi(e_pred_shape, crop))
                /\ e_pc' = "done"
                /\ UNCHANGED e_error
    /\ UNCHANGED <<ensInputs, e_cnn, e_runs, e_pred_shape>>
    /\ UNCHANGED notEns

EnsNext ==
    \/ LoadModel
    \/ PadAndSegment
    \/ CropAndReturn

\* ------------------------------------- the two readers of a bounded name
\* '_'.join(parts)
RECURSIVE JoinUnderscore(_)
JoinUnderscore(parts) ==
    IF parts = <<>> THEN <<>>
    ELSE IF Len(parts) = 1 THEN parts[1]
    ELSE parts[1] \o <<"_">> \o JoinUnderscore(Tail(parts))

\* how many tokens update_file drops from the end of a bounded file name
TokensDropped == 16
\* update_file: original_name = '_'.join(f.split('_')[0:-16]) + '.nii.gz'
OriginalName(f) ==
    LET parts == SplitUnderscore(f)
    IN  JoinUnderscore(SubSeq(parts, 1, NormIdx(0 - TokensDropped, Len(parts))))
            \o <<".nii.gz">>

\* stems of image names: plain, with underscores, ending in a number, made
\* of the words of the convention, holding the suffix
Stems ==
    {<<"img">>,
     <<"my", "_", "img">>,
     <<"scan", "_", "2", "_", "3">>,
     <<"pad", "_", "x", "_", "1", "_", "z">>,
     <<"a", ".nii.gz", "_", "b">>}
\* the pads of the names read: those of PadsTried and six different ones
NamePads == PadsTried \cup {<<3, 4, 1, 2, 0, 1>>}
NameBoxes == {<<10, 20, 5>>, <<0, 1, 2>>}

NameInit ==
    /\ n_stem \in Stems
    /\ n_pads \in NamePads
    /\ \E box \in NameBoxes : n_fname = BoundedName(n_stem, box, n_pads)
    /\ n_parsed = <<>>
    /\ n_error = "none"
    /\ n_original = <<>>

NameIdle ==
    /\ n_stem = <<"img">>
    /\ n_pads = <<0, 0, 0, 0, 0, 0>>
    /\ n_fname = BoundedName(<<"img">>, <<10, 20, 5>>, <<0, 0, 0, 0, 0, 0>>)
    /\ n_parsed = <<>>
    /\ n_error = "none"
    /\ n_original = <<>>

\* ensemble_segment_3d, lines 167-173, on the bounded file name
ReadPads ==
    /\ n_parsed = <<>> /\ n_error = "none"
    /\ IF ParseError(n_fname) # "none"
       THEN n_error' = ParseError(n_fname) /\ UNCHANGED n_parsed
       ELSE n_parsed' = ParsePads(n_fname) /\ UNCHANGED n_error
    /\ UNCHANGED <<n_stem, n_pads, n_fname, n_original>>
    /\ UNCHANGED notName

\* update_file, line 185, on the bounded file name
ReadOriginalName ==
    /\ n_original = <<>>
    /\ n_original' = OriginalName(n_fname)
    /\ UNCHANGED <<n_stem, n_pads, n_fname, n_parsed, n_error>>
    /\ UNCHANGED notName

NameNext ==
    \/ ReadPads
    \/ ReadOriginalName

\* ------------------------------------------- maybe_save_annotation_3d
\* One annotation file of one image, saved by the client while the trainer
\* reads the annotation directory.  nibabel's to_filename writes a file in
\* place: the name exists from the start of the write and the content is
\* complete only at its end.
Absent == [state |-> "absent", version |-> 0]
AnnotInit ==
    /\ a_pc = "idle"
    /\ a_files = [n \in {"tmp", "final"} |-> Absent]
    /\ a_annot_path = FALSE
    /\ a_saves = 0
    /\ a_read = 0
    /\ a_read_partial = FALSE
    /\ a_mail = "no_save"

\* maybe_save_annotation_3d up to its first write.  differs: the annotation
\* is not the one saved; empty: np.sum(annot_data) == 0.  With annot_path
\* set and no file there (removed by an earlier save), load_annot raises.
\* An existing annotation is overwritten in place: to_filename is given
\* annot_path itself.
\* save_annotation keeps what maybe_save_annotation_3d returns as annot_path
\* and calls start_training() when that is set.  (Its call also hands over
\* seg_props, for which the function of file_utils.py has no parameter;
\* the model follows the function with the arguments it takes.)
Mailed(annot_path) == IF annot_path THEN "start_training" ELSE "not_sent"
SaveBegin(differs, empty) ==
    /\ a_pc = "idle"
    /\ a_saves < MaxSaves
    /\ a_saves' = a_saves + 1
    /\ IF a_annot_path
       THEN IF a_files["final"].state = "absent"
            THEN /\ a_mail' = "raised"
                 /\ UNCHANGED <<a_pc, a_files>>
            ELSE IF ~differs
            THEN /\ a_mail' = Mailed(a_annot_path)
                 /\ UNCHANGED <<a_pc, a_files>>
            ELSE IF empty
            THEN /\ a_files' = [a_files EXCEPT !["final"] = Absent]
                 /\ a_mail' = Mailed(a_annot_path)
                 /\ UNCHANGED a_pc
            ELSE /\ a_files' = [a_files EXCEPT
                                   !["final"] = [state |-> "partial",
                                                 version |-> a_saves']]
                 /\ a_pc' = "write_final"
                 /\ a_mail' = "saving"
       ELSE IF empty
            THEN /\ a_mail' = Mailed(a_annot_path)
                 /\ UNCHANGED <<a_pc, a_files>>
            ELSE /\ a_files' = [a_files EXCEPT
                                   !["tmp"] = [state |-> "partial", version |-> a_saves']]
                 /\ a_pc' = "write_tmp"
                 /\ a_mail' = "saving"
    /\ UNCHANGED <<a_annot_path, a_read, a_read_partial>>
    /\ UNCHANGED notAnnot

\* img.to_filename(tmp_annot_path) returns
WriteTmpEnd ==
    /\ a_pc = "write_tmp"
    /\ a_files' = [a_files EXCEPT !["tmp"].state = "complete"]
    /\ a_pc' = "rename"
    /\ UNCHANGED <<a_annot_path, a_saves, a_read, a_read_partial, a_mail>>
    /\ UNCHANGED notAnnot

\* os.rename(tmp_annot_path, annot_path), and the return of annot_path
RenameTmp ==
    /\ a_pc = "rename"
    /\ a_files' = [a_files EXCEPT !["final"] = a_files["tmp"], !["tmp"] = Absent]
    /\ a_annot_path' = TRUE
    /\ a_mail' = Mailed(a_annot_path')
    /\ a_pc' = "idle"
    /\ UNCHANGED <<a_saves, a_read, a_read_partial>>
    /\ UNCHANGED notAnnot

\* img.to_filename(annot_path) returns
WriteFinalEnd ==
    /\ a_pc = "write_final"
    /\ a_files' = [a_files EXCEPT !["final"].state = "complete"]
    /\ a_mail' = Mailed(a_annot_path)
    /\ a_pc' = "idle"
    /\ UNCHANGED <<a_annot_path, a_saves, a_read, a_read_partial>>
    /\ UNCHANGED notAnnot

\* update_file: annot_path = get_annot_path(...), None unless the file is there
RefreshAnnotPath ==
    /\ a_pc = "idle"
    /\ a_annot_path' = (a_files["final"].state # "absent")
    /\ a_annot_path' # a_annot_path
    /\ UNCHANGED <<a_pc, a_files, a_saves, a_read, a_read_partial, a_mail>>
    /\ UNCHANGED notAnnot

\* the trainer reads the annotation directory: names that start with '.'
\* are not used; the file under the final name is read as it is
TrainerReadsAnnot ==
    /\ a_files["final"].state # "absent"
    /\ a_read' = a_files["final"].version
    /\ a_read_partial' = (a_read_partial \/ a_files["final"].state = "partial")
    /\ a_read' # a_read \/ a_read_partial' # a_read_partial
    /\ UNCHANGED <<a_pc, a_files, a_annot_path, a_saves, a_mail>>
    /\ UNCHANGED notAnnot

AnnotNext ==
    \/ \E differs, empty \in BOOLEAN : SaveBegin(differs, empty)
    \/ WriteTmpEnd
    \/ RenameTmp
    \/ WriteFinalEnd
    \/ RefreshAnnotPath
    \/ TrainerReadsAnnot

\* ------------------------------------------------------------ load_model
NoModel == 0
NoModelPath == 0
Paths == 1..NumPaths
NoCall == [kind |-> "none", path |-> NoModelPath, id |-> NoModel]

CacheInit ==
    /\ cached_model = NoModel
    /\ cached_model_path = NoModelPath
    /\ m_heap = <<>>
    /\ m_disk = [p \in Paths |-> 1]
    /\ m_held = {}
    /\ m_last = NoCall
    /\ m_orig = [path |-> NoModelPath, version |-> 0, steps |-> 0]
    /\ m_calls = 0
    /\ m_steps = 0

\* UNet3D(...) with the state dict of the checkpoint at path p
Loaded(p) == [path |-> p, version |-> m_disk[p], steps |-> 0]
\* copy.deepcopy(model): the object the caller gets, of the model and of its
\* copy
HandedCached(model, copy) == model
Handed(model, copy) == copy
\* cached_model_path after a call for path p that raised: the assignments
\* come after the load
PathAfterRaiseSet(old, p) == p
PathAfterRaise(old, p) == old

\* load_model(model_path, classes), for model_path = p
load_model(p) ==
    /\ m_calls < MaxLoads
    /\ m_calls' = m_calls + 1
    /\ IF p = cached_model_path
       THEN LET copy == Len(m_heap) + 1
            IN  /\ m_heap' = Append(m_heap, m_heap[cached_model])
                /\ m_held' = m_held \cup {Handed(cached_model, copy)}
                /\ m_last' = [kind |-> "hit", path |-> p,
                              id |-> Handed(cached_model, copy)]
                /\ UNCHANGED <<cached_model, cached_model_path, m_orig>>
       ELSE IF m_disk[p] = 0
       THEN /\ m_last' = [kind |-> "raised", path |-> p, id |-> NoModel]
            /\ cached_model_path' = PathAfterRaise(cached_model_path, p)
            /\ UNCHANGED <<cached_model, m_heap, m_held, m_orig>>
       ELSE LET model == Len(m_heap) + 1
                copy == Len(m_heap) + 2
            IN  /\ m_heap' = m_heap \o <<Loaded(p), Loaded(p)>>
                /\ cached_model_path' = p
                /\ cached_model' = model
                /\ m_orig' = Loaded(p)
                /\ m_held' = m_held \cup {Handed(model, copy)}
                /\ m_last' = [kind |-> "miss", path |-> p, id |-> Handed(model, copy)]
    /\ UNCHANGED <<m_disk, m_steps>>
    /\ UNCHANGED notCache

\* a caller changes a model it got from load_model (a training step)
MutateModel(id) ==
    /\ id \in m_held
    /\ m_steps < MaxMutations
    /\ m_steps' = m_steps + 1
    /\ m_heap' = [m_heap EXCEPT ![id].steps = @ + 1]
    /\ UNCHANGED <<cached_model, cached_model_path, m_disk, m_held, m_last, m_orig, m_calls>>
    /\ UNCHANGED notCache

\* the checkpoint at path p is written anew, removed or made unreadable
WriteCheckpoint(p, v) ==
    /\ v # m_disk[p]
    /\ m_disk' = [m_disk EXCEPT ![p] = v]
    /\ UNCHANGED <<cached_model, cached_model_path, m_heap, m_held, m_last, m_orig,
                   m_calls, m_steps>>
    /\ UNCHANGED notCache

CacheNext ==
    \/ \E p \in Paths : load_model(p)
    \/ \E id \in 1..(2 * MaxLoads) : MutateModel(id)
    \/ \E p \in Paths, v \in 0..MaxVersion : WriteCheckpoint(p, v)

\* -------------------------------------- the two planes of annot_data
\* annot_data has shape (2, depth, height, width); plane 0 is background,
\* plane 1 foreground.  A voxel is <<z, y, x>>, counted from 0.
AnnotShape == <<MaxAnnotSide, MaxAnnotSide, MaxAnnotSide>>
AnnotVoxels ==
    {<<z, y, x>> : z \in 0..(AnnotShape[1] - 1), y \in 0..(AnnotShape[2] - 1),
                   x \in 0..(AnnotShape[3] - 1)}

\* a mask as the array it is in the code: the set S with its members
\* enumerated
Mask(S) == {v : v \in S}

\* skimage.measure.label(..., connectivity=2): two voxels are neighbours
\* when they differ by at most 1 on every axis and on at most 2 axes
Abs(n) == IF n < 0 THEN 0 - n ELSE n
Changed(a, b) == IF a = b THEN 0 ELSE 1
Neighbours2(v, w) ==
    /\ v # w
    /\ \A a \in 1..3 : Abs(v[a] - w[a]) <= 1
    /\ Changed(v[1], w[1]) + Changed(v[2], w[2]) + Changed(v[3], w[3]) <= 2
\* scipy.ndimage.binary_fill_holes: neighbours share a face
Neighbours1(v, w) ==
    Abs(v[1] - w[1]) + Abs(v[2] - w[2]) + Abs(v[3] - w[3]) = 1

\* the voxels of `within` reached from `frontier` over neighbours; `seen`
\* holds the voxels reached so far
RECURSIVE Reach2(_, _, _)
Reach2(frontier, seen, within) ==
    LET more == Mask({w \in within \ seen : \E v \in frontier : Neighbours2(v, w)})
    IN  IF more = {} THEN seen ELSE Reach2(more, Mask(seen \cup more), within)
RECURSIVE Reach1(_, _, _)
Reach1(frontier, seen, within) ==
    LET more == Mask({w \in within \ seen : \E v \in frontier : Neighbours1(v, w)})
    IN  IF more = {} THEN seen ELSE Reach1(more, Mask(seen \cup more), within)
\* labelled == labelled[z, y, x]: the connected component of voxel v in
\* `corrected`
Component(v, corrected) == Reach2({v}, {v}, corrected)

\* the voxels of an array slice [lo[a], hi[a]) on every axis
RoiBox(lo, hi) ==
    Mask({v \in AnnotVoxels : \A a \in 1..3 : lo[a] <= v[a] /\ v[a] < hi[a]})
\* binary_fill_holes(mask) on the array whose voxels are [lo, hi) and whose
\* axes are `axes`: everything but the background that reaches the border
\* of the array
OnBorder(v, lo, hi, axes) == \E a \in axes : v[a] = lo[a] \/ v[a] = hi[a] - 1
FillHoles(mask, lo, hi, axes) ==
    LET box == RoiBox(lo, hi)
        background == Mask(box \ mask)
        edge == Mask({v \in background : OnBorder(v, lo, hi, axes)})
    IN  Mask(box \ Reach1(edge, edge, background))

\* the volumes looked at: a segmented shell around Centre with a tail to
\* Corner, and a segmented voxel Far that touches neither
Centre == <<1, 1, 1>>
Corner == <<3, 3, 3>>
Far == <<0, 3, 3>>
Shell == {v \in AnnotVoxels : Neighbours1(Centre, v)}
TailToCorner == {<<3, 2, 1>>, <<3, 3, 2>>, Corner}
NoOp == [op |-> "none", removed |-> FALSE, holes |-> {}]

AnnotDataInit ==
    /\ an_seg \in {{}, Shell \cup TailToCorner \cup {Far}}
    /\ an_bg \in IF an_seg = {} THEN {{}} ELSE SUBSET {Centre}
    /\ an_fg \in IF an_seg = {} THEN {{}} ELSE SUBSET {Far}
    /\ an_last = NoOp
    /\ an_ops = 0

AnnotDataIdle ==
    /\ an_seg = {}
    /\ an_bg = {}
    /\ an_fg = {}
    /\ an_last = NoOp
    /\ an_ops = 0

\* fill_annot(annot_pixmap): the red channel is the painted foreground; the
\* result is red where the filled mask is set and green everywhere else.
\* painted: the pixels of the slice whose red channel is set; the slice is
\* the two-dimensional array [lo, hi) over `axes`.
FillAnnotFg(painted, lo, hi, axes) == FillHoles(painted, lo, hi, axes)
FillAnnotBg(painted, lo, hi, axes) == RoiBox(lo, hi) \ FillHoles(painted, lo, hi, axes)

\* the voxels of slice slice_idx in a mode: store_annot_slice writes
\* annot_data[p, shape[1] - slice_idx - 1] (axial) or
\* annot_data[p, :, :, slice_idx] (sagittal); coronal slices are never
\* written
SliceAxes(mode) ==
    IF mode = "axial" THEN {2, 3} ELSE IF mode = "sagittal" THEN {1, 2} ELSE {1, 3}
SliceLoOf(mode, slice_idx) ==
    IF mode = "axial" THEN <<(AnnotShape[1] - slice_idx) - 1, 0, 0>>
    ELSE IF mode = "sagittal" THEN <<0, 0, slice_idx>>
    ELSE <<0, slice_idx, 0>>
SliceHiOf(mode, slice_idx) ==
    IF mode = "axial"
    THEN <<(AnnotShape[1] - slice_idx) - 1 + 1, AnnotShape[2], AnnotShape[3]>>
    ELSE IF mode = "sagittal" THEN <<AnnotShape[1], AnnotShape[2], slice_idx + 1>>
    ELSE <<AnnotShape[1], slice_idx + 1, AnnotShape[3]>>
\* the slices the user stores: the second and the last one
SliceIdxs(mode) ==
    IF mode = "axial" THEN {1, AnnotShape[1] - 1}
    ELSE IF mode = "sagittal" THEN {1, AnnotShape[3] - 1}
    ELSE {1}

\* what the user painted on a slice: nothing, one pixel, or the four
\* pixels around it
Strokes(mode, slice_idx) ==
    LET slice == RoiBox(SliceLoOf(mode, slice_idx), SliceHiOf(mode, slice_idx))
        mids == {v \in slice : \A a \in SliceAxes(mode) : v[a] = 1}
    IN  IF mode = "coronal" THEN {{}}
        ELSE {{}} \cup {{c} : c \in mids}
                 \cup {{w \in slice : Neighbours1(c, w)} : c \in mids}

\* store_annot_slice(fill_annot(pixmap), annot_data, slice_idx, mode): both
\* planes of the slice are overwritten; mode 'coronal' raises before any
\* write
StoreFilledSlice(mode, slice_idx, painted) ==
    /\ an_ops < MaxAnnotOps
    /\ an_ops' = an_ops + 1
    /\ IF mode = "coronal"
       THEN /\ an_last' = [op |-> "store_raised", removed |-> FALSE, holes |-> {}]
            /\ UNCHANGED <<an_bg, an_fg>>
       ELSE LET lo == SliceLoOf(mode, slice_idx)
                hi == SliceHiOf(mode, slice_idx)
                axes == SliceAxes(mode)
                slice == RoiBox(lo, hi)
                fg == FillAnnotFg(painted, lo, hi, axes)
            IN  /\ an_bg' = (an_bg \ slice) \cup FillAnnotBg(painted, lo, hi, axes)
                /\ an_fg' = (an_fg \ slice) \cup fg
                /\ an_last' = [op |-> "stored", removed |-> FALSE,
                               holes |-> fg \ painted]
    /\ UNCHANGED an_seg
    /\ UNCHANGED notAnnotData

\* annot_data[1][disconnected_regions] = 0
FgKept(fg, disconnected_regions) == fg
FgCleared(fg, disconnected_regions) == Mask(fg \ disconnected_regions)

\* the smallest and largest coordinate of a set of voxels on axis a
MinOn(S, a) == CHOOSE n \in {v[a] : v \in S} : \A v \in S : n <= v[a]
MaxOn(S, a) == CHOOSE n \in {v[a] : v \in S} : \A v \in S : n >= v[a]

\* ((seg_map + annot_plus) - annot_minus) > 0
Corrected(seg, fg, bg) ==
    Mask({v \in seg \cup fg :
             (IF v \in seg THEN 1 ELSE 0) + (IF v \in fg THEN 1 ELSE 0)
                 - (IF v \in bg THEN 1 ELSE 0) > 0})

\* restrict_to_regions_containing_points(seg_data, annot_data, region_points)
\* with region_points a sequence of voxels (given as (x, y, z) in the code)
RestrictToRegions(region_points) ==
    /\ an_ops < MaxAnnotOps
    /\ an_ops' = an_ops + 1
    /\ LET corrected == Corrected(an_seg, an_fg, an_bg)
       IN  IF \E i \in 1..Len(region_points) : region_points[i] \notin corrected
           THEN /\ an_last' = [op |-> "refused", removed |-> FALSE, holes |-> {}]
                /\ UNCHANGED <<an_bg, an_fg>>
           ELSE LET selected_component ==
                        UNION {Component(region_points[i], corrected) :
                                   i \in 1..Len(region_points)}
                    disconnected_regions == Mask(corrected \ selected_component)
                    bg1 == Mask(an_bg \cup disconnected_regions)
                    fg1 == FgCleared(an_fg, disconnected_regions)
                    lo == <<MinOn(selected_component, 1), MinOn(selected_component, 2),
                            MinOn(selected_component, 3)>>
                    hi == <<MaxOn(selected_component, 1), MaxOn(selected_component, 2),
                            MaxOn(selected_component, 3)>>
                    roi_corrected == Mask(Corrected(an_seg, fg1, bg1) \cap RoiBox(lo, hi))
                    roi_extra_fg ==
                        Mask(FillHoles(roi_corrected, lo, hi, {1, 2, 3}) \ roi_corrected)
                IN  /\ an_bg' = bg1 \ roi_extra_fg
                    /\ an_fg' = fg1 \cup roi_extra_fg
                    /\ an_last' = [op |-> "restricted",
                                   removed |-> disconnected_regions # {},
                                   holes |-> roi_extra_fg]
    /\ UNCHANGED an_seg
    /\ UNCHANGED notAnnotData

Modes == {"axial", "coronal", "sagittal"}
\* the places the user clicks to keep a region
RegionPoints == {Centre, Corner, Far}
AnnotDataNext ==
    \/ \E mode \in Modes : \E slice_idx \in SliceIdxs(mode) :
          \E painted \in Strokes(mode, slice_idx) :
              StoreFilledSlice(mode, slice_idx, painted)
    \/ \E v \in RegionPoints : RestrictToRegions(<<v>>)
    \/ \E v \in RegionPoints : RestrictToRegions(<<v, Far>>)

\* ------------------------------------------------- the client's log
\* self.log_debounce.setInterval(500)
LogInterval == 500

\* __init__: no lines, a single-shot timer that is not running.  A line
\* is the number of the log() call that made it.
LogInit ==
    /\ lines_to_log = <<>>
    /\ client_csv = <<>>
    /\ debounce_active = FALSE
    /\ debounce_left = 0
    /\ log_calls = 0
    /\ log_quiet = LogInterval
    /\ last_batch = <<>>

\* self.log_debounce.start(): a running timer is stopped and started again
TimeLeftKept(active, left) == IF active THEN left ELSE LogInterval
TimeLeftAfterStart(active, left) == LogInterval

\* log(message)
Log ==
    /\ log_calls < MaxLines
    /\ log_calls' = log_calls + 1
    /\ lines_to_log' = Append(lines_to_log, log_calls + 1)
    /\ debounce_left' = TimeLeftAfterStart(debounce_active, debounce_left)
    /\ debounce_active' = TRUE
    /\ log_quiet' = 0
    /\ UNCHANGED <<client_csv, last_batch>>
    /\ UNCHANGED notLog

\* TickMs milliseconds pass; a timer that has run out may fire late
LogTick ==
    /\ debounce_left' = IF debounce_active THEN Max(0, debounce_left - TickMs)
                        ELSE debounce_left
    /\ log_quiet' = Min(LogInterval, log_quiet + TickMs)
    /\ UNCHANGED <<lines_to_log, client_csv, debounce_active, log_calls, last_batch>>
    /\ UNCHANGED notLog

\* the timeout of the single-shot timer: log_debounced()
LogDebounced ==
    /\ debounce_active
    /\ debounce_left = 0
    /\ debounce_active' = FALSE
    /\ client_csv' = client_csv \o lines_to_log
    /\ last_batch' = lines_to_log
    /\ lines_to_log' = <<>>
    /\ UNCHANGED <<debounce_left, log_calls, log_quiet>>
    /\ UNCHANGED notLog

LogNext ==
    \/ Log
    \/ LogTick
    \/ LogDebounced

\* ------------------------------------------- get_new_annot_target_dir
\* The train and val annotation directories of a project, filled by saves
\* of new annotations; a file carries the name of its image.  Nothing is
\* deleted.
AnnotNames == 1..MaxAnnotFiles
NoSave == [fname |-> 0, num_train_annots |-> 0, num_val_annots |-> 0, dir |-> "none"]

TargetInit ==
    /\ train_annots = {}
    /\ val_annots = {}
    /\ target_last = NoSave

\* get_new_annot_target_dir(train_annot_dir, val_annot_dir), on the number
\* of annotation files found in each
TargetDirWhenMore(num_train_annots, num_val_annots) ==
    IF num_train_annots = 0 /\ num_val_annots = 0 THEN "train"
    ELSE IF num_train_annots = 0 /\ num_val_annots > 0 THEN "train"
    ELSE IF num_train_annots > 0 /\ num_val_annots = 0 THEN "val"
    ELSE IF num_train_annots > num_val_annots * 5 THEN "val"
    ELSE "train"
get_new_annot_target_dir(num_train_annots, num_val_annots) ==
    IF num_train_annots = 0 /\ num_val_annots = 0 THEN "train"
    ELSE IF num_train_annots = 0 /\ num_val_annots > 0 THEN "train"
    ELSE IF num_train_annots > 0 /\ num_val_annots = 0 THEN "val"
    ELSE IF num_train_annots >= num_val_annots * 5 THEN "val"
    ELSE "train"

\* maybe_save_annotation_3d for an image that has no annotation file
\* (annot_path is None).  empty: np.sum(annot_data) == 0, nothing is saved;
\* else the file is written under the directory chosen and renamed into
\* place
SaveNewAnnotation(fname, empty) ==
    /\ fname \notin train_annots \cup val_annots
    /\ LET num_train_annots == Cardinality(train_annots)
           num_val_annots == Cardinality(val_annots)
           annot_dir == get_new_annot_target_dir(num_train_annots, num_val_annots)
       IN  IF empty
           THEN /\ target_last' = [fname |-> fname, num_train_annots |-> num_train_annots,
                                   num_val_annots |-> num_val_annots, dir |-> "none"]
                /\ UNCHANGED <<train_annots, val_annots>>
           ELSE /\ target_last' = [fname |-> fname, num_train_annots |-> num_train_annots,
                                   num_val_annots |-> num_val_annots, dir |-> annot_dir]
                /\ train_annots' = IF annot_dir = "train" THEN train_annots \cup {fname}
                                   ELSE train_annots
                /\ val_annots' = IF annot_dir = "val" THEN val_annots \cup {fname}
                                 ELSE val_annots
    /\ UNCHANGED notTarget

TargetNext ==
    \E fname \in AnnotNames : \E empty \in BOOLEAN : SaveNewAnnotation(fname, empty)

\* --------------------------------------------------------- specifications
Init == SegInit /\ MailInit /\ WatchInit /\ ReconIdle /\ EnsIdle /\ NameIdle
    /\ AnnotInit
    /\ CacheInit
    /\ AnnotDataIdle
    /\ LogInit
    /\ TargetInit
Next == SegNext
Spec == Init /\ [][Next]_vars

MailSpecInit == SegIdle /\ MailInit /\ WatchInit /\ ReconIdle /\ EnsIdle /\ NameIdle
    /\ AnnotInit
    /\ CacheInit
    /\ AnnotDataIdle
    /\ LogInit
    /\ TargetInit
MailSpec == MailSpecInit /\ [][MailNext]_vars

WatchSpecInit == SegIdle /\ MailInit /\ WatchInit /\ ReconIdle /\ EnsIdle /\ NameIdle
    /\ AnnotInit
    /\ CacheInit
    /\ AnnotDataIdle
    /\ LogInit
    /\ TargetInit
WatchSpec == WatchSpecInit /\ [][WatchNext]_vars
MsgSpec == WatchSpecInit /\ [][MsgNext]_vars
\* The watch loop with its scheduling: a pending timer fires (Qt runs a
\* singleShot timer once its 500 ms are over), and the trainer finishes the
\* file it is writing.
WatchLiveSpec ==
    /\ WatchSpecInit
    /\ [][WatchNext]_vars
    /\ WF_vars(Check)
    /\ WF_vars(\E i \in Images : SegWriteEnd(i))

ReconSpecInit == SegIdle /\ MailInit /\ WatchInit /\ ReconInit /\ EnsIdle /\ NameIdle
    /\ AnnotInit
    /\ CacheInit
    /\ AnnotDataIdle
    /\ LogInit
    /\ TargetInit
ReconSpec == ReconSpecInit /\ [][ReconNext]_vars

EnsSpecInit == SegIdle /\ MailInit /\ WatchInit /\ ReconIdle /\ EnsInit /\ NameIdle
    /\ AnnotInit
    /\ CacheInit
    /\ AnnotDataIdle
    /\ LogInit
    /\ TargetInit
EnsSpec == EnsSpecInit /\ [][EnsNext]_vars

NameSpecInit == SegIdle /\ MailInit /\ WatchInit /\ ReconIdle /\ EnsIdle /\ NameInit
    /\ AnnotInit
    /\ CacheInit
    /\ AnnotDataIdle
    /\ LogInit
    /\ TargetInit
NameSpec == NameSpecInit /\ [][NameNext]_vars

AnnotSpecInit == SegIdle /\ MailInit /\ WatchInit /\ ReconIdle /\ EnsIdle /\ NameIdle
    /\ AnnotInit
    /\ CacheInit
    /\ AnnotDataIdle
    /\ LogInit
    /\ TargetInit
AnnotSpec == AnnotSpecInit /\ [][AnnotNext]_vars

CacheSpecInit == SegIdle /\ MailInit /\ WatchInit /\ ReconIdle /\ EnsIdle /\ NameIdle
    /\ AnnotInit
    /\ CacheInit
    /\ AnnotDataIdle
    /\ LogInit
    /\ TargetInit
CacheSpec == CacheSpecInit /\ [][CacheNext]_vars

AnnotDataSpecInit == SegIdle /\ MailInit /\ WatchInit /\ ReconIdle /\ EnsIdle /\ NameIdle
    /\ AnnotInit
    /\ CacheInit
    /\ AnnotDataInit
    /\ LogInit
    /\ TargetInit
AnnotDataSpec == AnnotDataSpecInit /\ [][AnnotDataNext]_vars

TargetSpecInit == SegIdle /\ MailInit /\ WatchInit /\ ReconIdle /\ EnsIdle /\ NameIdle
    /\ AnnotInit
    /\ CacheInit
    /\ AnnotDataIdle
    /\ LogInit
    /\ TargetInit
TargetSpec == TargetSpecInit /\ [][TargetNext]_vars

LogSpecInit == SegIdle /\ MailInit /\ WatchInit /\ ReconIdle /\ EnsIdle /\ NameIdle
    /\ AnnotInit
    /\ CacheInit
    /\ AnnotDataIdle
    /\ LogInit
    /\ TargetInit
\* the event loop keeps running: time passes and a timer that has run out
\* fires
LogLiveSpec ==
    /\ LogSpecInit
    /\ [][LogNext]_vars
    /\ WF_vars(LogTick)
    /\ WF_vars(LogDebounced)

\* ------------------------------------------------------------ the claims
Planned == pc \in {"loop", "done"}
\* coords is assigned once, by Plan, and read-only afterwards: what holds of
\* the planner's coordinates is stated of the state Plan leaves
JustPlanned == pc = "loop" /\ coord_idx = 0

\* the output voxels that the tile at coordinate c = (x, y, z) covers
TileRegion(c) ==
    {p \in Box(out_im_shape) :
        /\ c[3] <= p[1] /\ p[1] < c[3] + out_tile_shape[1]
        /\ c[2] <= p[2] /\ p[2] < c[2] + out_tile_shape[2]
        /\ c[1] <= p[3] /\ p[3] < c[1] + out_tile_shape[3]}
Covering(p) == {i \in 1..Len(coords) : p \in TileRegion(coords[i])}

\* the extent of the network's output over the whole image, axis by axis
OutExtent(a) == image_shape[a] - (in_tile_shape[a] - out_tile_shape[a])
\* the coordinate of tile i along array axis a (coordinates are (x, y, z))
Along(i, a) == coords[i][4 - a]
\* some axis is not a multiple of the output patch: its last tile is clamped
Clamped(a) == OutExtent(a) % out_tile_shape[a] # 0

\* C1: every coordinate the planner produces for segment_3d places its
\* output patch inside the output volume, every output voxel lies in at
\* least one tile, and every input tile segment_3d slices has exactly the
\* input-patch shape (its shape assert never fails when image >= in_tile).
C1_TilesInsideCoverAndShape ==
    /\ JustPlanned =>
          /\ \A i \in 1..Len(coords) : \A a \in 1..3 :
                /\ 0 <= Along(i, a)
                /\ Along(i, a) + out_tile_shape[a] <= OutExtent(a)
          /\ \A p \in Box(<<OutExtent(1), OutExtent(2), OutExtent(3)>>) :
                \E i \in 1..Len(coords) :
                    \A a \in 1..3 : /\ Along(i, a) <= p[a]
                                    /\ p[a] < Along(i, a) + out_tile_shape[a]
          /\ \A i \in 1..Len(coords) :
                TileShapeAt(image_shape, coords[i], in_tile_shape) = in_tile_shape
    /\ pc = "assert_failed" => \E a \in 1..3 : image_shape[a] < in_tile_shape[a]
C1_Witness ==
    /\ JustPlanned
    /\ Len(coords) > 1
    /\ \E a \in 1..3 : Clamped(a) /\ in_tile_shape[a] > out_tile_shape[a]

\* C2 as stated: the output patches cover every voxel of the output volume
\* exactly once, also when the volume is not a multiple of the patch.
C2_ExactlyOnce ==
    JustPlanned => \A p \in Box(out_im_shape) : Cardinality(Covering(p)) = 1
\* C2 amended: every output voxel is covered at least once; it is covered
\* exactly once unless it lies, on an axis whose extent is not a multiple
\* of the patch extent, in the stretch that the final right-aligned tile
\* shares with the tile before it; each such axis doubles the count.
InOverlap(p, a) ==
    /\ Clamped(a)
    /\ OutExtent(a) - out_tile_shape[a] <= p[a]
    /\ p[a] < (OutExtent(a) \div out_tile_shape[a]) * out_tile_shape[a]
Mult(p, a) == IF InOverlap(p, a) THEN 2 ELSE 1
C2_OnceExceptClampedOverlap ==
    JustPlanned =>
        \A p \in Box(<<OutExtent(1), OutExtent(2), OutExtent(3)>>) :
            Cardinality({i \in 1..Len(coords) :
                            \A a \in 1..3 : /\ Along(i, a) <= p[a]
                                            /\ p[a] < Along(i, a) + out_tile_shape[a]})
                = Mult(p, 1) * Mult(p, 2) * Mult(p, 3)
C2_Witness ==
    /\ JustPlanned
    /\ \E p \in Box(out_im_shape) : Cardinality(Covering(p)) = 4
    /\ \E p \in Box(out_im_shape) : Cardinality(Covering(p)) = 1

\* C3: for every batch size >= 1 the batch loop terminates having processed
\* each coordinate exactly once in planner order; every batch holds at most
\* batch_size tiles and only the last may be shorter; at the end each
\* per-class list has len(coords) tiles, the Nth being the network's output
\* for the window at the Nth coordinate.
RECURSIVE Flatten(_)
Flatten(ss) == IF ss = <<>> THEN <<>> ELSE Head(ss) \o Flatten(Tail(ss))
C3_BatchInv ==
    /\ Planned =>
          /\ Flatten(batches) = SubSeq(coords, 1, coord_idx)
          /\ \A j \in 1..Len(batches) :
                /\ 1 <= Len(batches[j])
                /\ Len(batches[j]) <= batch_size
                /\ Len(batches[j]) < batch_size =>
                      (j = Len(batches) /\ coord_idx = Len(coords))
    /\ pc = "done" =>
          /\ coord_idx = Len(coords)
          /\ Len(class_output_tiles) = classes
          /\ \A k \in 1..classes :
                /\ Len(class_output_tiles[k]) = Len(coords)
                /\ \A n \in 1..Len(coords) :
                      class_output_tiles[k][n] =
                          CnnOut(k, InputTile(image, image_shape, coords[n], in_tile_shape),
                                 in_tile_shape, out_tile_shape)
\* Termination: every pass of the loop consumes at least one coordinate and
\* coord_idx never passes len(coords), so there are at most len(coords)
\* passes before the loop condition fails.
C3_BatchLoopTerminatesAligned ==
    /\ C3_BatchInv
    /\ Planned => (Len(batches) <= coord_idx /\ coord_idx <= Len(coords))
C3_Witness ==
    /\ pc = "done"
    /\ Len(batches) >= 2
    /\ Len(batches[Len(batches)]) < batch_size
    /\ classes >= 2

\* C4: in every interleaving of a send with the trainer's listing and
\* reading, no file of the instructions directory has its final name while
\* its content is incomplete, and the trainer has never read an incomplete
\* instruction.
C4_NoPartialInstructionObserved ==
    /\ \A f \in instruction_dir : f.name = "final" => f.complete
    /\ ~read_partial
\* the trainer has listed the directory and is about to read, while a send
\* is half-way through writing its file
C4_Witness ==
    /\ trainer_pc = "exec"
    /\ listed # <<>>
    /\ client_pc = "writing"
    /\ \E f \in instruction_dir : ~f.complete
    /\ \E i \in Ids : executed[i] >= 1

\* a segmentation file is at seg_path and none was loaded or it is newer
\* than the one loaded
FileNewerThanLoaded ==
    /\ seg_path # NoPath
    /\ seg_file[seg_path].exists
    /\ (seg_mtime = NoMtime \/ seg_file[seg_path].mtime > seg_mtime)
\* a step of the model that is a run of check()
IsTick == tick_flip' # tick_flip
TickReloads ==
    /\ seg_data' = seg_file[seg_path].mtime
    /\ view_state' = "ANNOTATING"
    /\ seg_mtime' = seg_file[seg_path].mtime
    /\ viewer_seg' = seg_data'
TickKeeps == UNCHANGED <<seg_data, seg_mtime, view_state>>

\* C5 as stated: on a tick, a file at seg_path that was never loaded or is
\* newer than seg_mtime is reloaded, view_state becomes ANNOTATING, seg_mtime
\* records its mtime and the viewers show it; otherwise seg_data, seg_mtime
\* and view_state are unchanged.
C5_TickReloadsWhenNewer ==
    [][IsTick => IF FileNewerThanLoaded THEN TickReloads ELSE TickKeeps]_vars
\* C5 amended: the reload happens exactly when, besides, the tick got past
\* listing the message directory and the file could be loaded; in every
\* other case (no file, not newer, listing raised, load raised) the tick
\* leaves seg_data, seg_mtime and view_state unchanged.
C5_TickReloadsWhenNewerAndLoadable ==
    [][IsTick =>
          IF /\ FileNewerThanLoaded
             /\ last_check' # "listdir_raised"
             /\ ~seg_file[seg_path].partial
          THEN TickReloads /\ last_check' = "reloaded"
          ELSE TickKeeps /\ last_check' # "reloaded"]_vars
\* a tick has just reloaded a segmentation written after the last load
C5_Witness ==
    /\ last_check = "reloaded"
    /\ view_state = "ANNOTATING"
    /\ seg_mtime = seg_file[seg_path].mtime
    /\ seg_mtime >= 2
    /\ seg_data = seg_mtime
    /\ viewer_seg = seg_data

\* C6 as stated: once track_changes has started polling, every tick sets
\* the timer for the next one, whatever its outcome: while tracking, a tick
\* is always pending.
C6_PollingNeverStops == tracking => check_timers > 0

C8_ExecutedAtMostOnce ==
    /\ \A i \in Ids : executed[i] <= 1
    /\ \A i \in Ids :
          (executed[i] >= 1 /\ cur # i) => ~\E f \in instruction_dir : f.id = i
    /\ cur # 0 => (trainer_pc = "delete" /\ listed # <<>> /\ cur = Head(listed))
    /\ cur = 0 => trainer_pc # "delete"
\* two instructions executed once each in different iterations of the loop,
\* both files gone
C8_Witness ==
    /\ \E i, j \in Ids :
          /\ i # j
          /\ executed[i] = 1
          /\ executed[j] = 1
          /\ j \in arrived_earlier
    /\ instruction_dir = {}
    /\ trainer_pc = "top"

\* the positions of the sequence passed in whose tile covers output voxel p
ReconCovering(p) ==
    {j \in 1..Len(r_order) :
        LET c == r_coords[r_order[j]]
        IN  <<p[1] - c[3], p[2] - c[2], p[3] - c[1]>> \in Box(r_tile_shape)}
\* the value the tile at position j of the sequence holds for output voxel p
ReconTileValue(j, p) ==
    LET c == r_coords[r_order[j]]
    IN  r_order[j] * 1000 + Voxel(<<p[1] - c[3], p[2] - c[2], p[3] - c[1]>>)

\* C11: the reconstructed map holds, at every voxel, the value of the tile
\* that comes latest in the sequence among those covering it; a voxel that
\* only one tile covers holds that tile's value whatever the order in which
\* the tiles are written.
C11_LaterWritesWin ==
    r_pc = "done" =>
        \A p \in Box(r_out_shape) :
            /\ ReconCovering(p) # {}
            /\ \E j \in ReconCovering(p) :
                  /\ \A i \in ReconCovering(p) : i <= j
                  /\ r_map[p] = ReconTileValue(j, p)
            /\ Cardinality(ReconCovering(p)) = 1 =>
                  \E n \in 1..Len(r_coords) :
                      LET c == r_coords[n]
                          q == <<p[1] - c[3], p[2] - c[2], p[3] - c[1]>>
                      IN  q \in Box(r_tile_shape) /\ r_map[p] = n * 1000 + Voxel(q)
\* tiles written out of planner order, a voxel under two tiles whose later
\* written one is the earlier in planner order, and a voxel under one tile
C11_Witness ==
    /\ r_pc = "done"
    /\ \E p \in Box(r_out_shape) :
          \E i, j \in ReconCovering(p) : i < j /\ r_order[i] > r_order[j]
    /\ \E p \in Box(r_out_shape) : Cardinality(ReconCovering(p)) = 1

\* the sum over the models of model_paths of their predictions for voxel p
RECURSIVE SumPred(_, _)
SumPred(paths, p) ==
    IF paths = <<>> THEN 0 ELSE ModelPred(Head(paths), p) + SumPred(Tail(paths), p)

\* C12 as stated: given N model paths, the tiled pipeline is run once for
\* each of the N models and the map returned is the average of the N maps.
C12_EveryModelContributes ==
    e_pc = "done" =>
        /\ e_runs = model_paths
        /\ ~e_bounded =>
              \A p \in Box(e_result_shape) :
                  Len(model_paths) * e_result[p] = SumPred(model_paths, p)

\* the name of the bounded volume follows the convention, and the six pads
\* <<x start, x end, y start, y end, z start, z end>> that were put in it
NameBuiltFrom(pads) == e_fname = BoundedName(<<"img">>, <<10, 20, 5>>, pads)
EncodedPads == CHOOSE pads \in PadsTried : NameBuiltFrom(pads)
FollowsConvention == \E pads \in PadsTried : NameBuiltFrom(pads)
\* the inherent margin of every axis (depth, height, width): half the
\* difference of the input and output patch shapes
Margin == <<(e_in_d - e_out_d) \div 2, (e_in_w - e_out_w) \div 2,
            (e_in_w - e_out_w) \div 2>>
\* the crop at the start and at the end of every axis (depth, height, width)
\* that the contract asks for: the encoded pad less the margin
CropStart == <<EncodedPads[5] - Margin[1], EncodedPads[3] - Margin[2],
               EncodedPads[1] - Margin[3]>>
CropEnd == <<EncodedPads[6] - Margin[1], EncodedPads[4] - Margin[2],
             EncodedPads[2] - Margin[3]>>

\* C13 as stated: for a bounded volume the map returned is the map of
\* segment_3d less exactly ps - m voxels at the start and pe - m voxels at
\* the end of every axis (ps, pe the encoded pads of the axis, m its
\* margin); with m = 0 that is the encoded pads themselves.
C13_CropsByPadLessMargin ==
    (e_pc = "done" /\ e_bounded /\ FollowsConvention) =>
        /\ \A a \in 1..3 :
              e_result_shape[a] = Max(0, e_pred_shape[a] - CropStart[a] - CropEnd[a])
        /\ \A q \in Box(e_result_shape) :
              e_result[q] = ModelPred(e_cnn, <<q[1] + CropStart[1], q[2] + CropStart[2],
                                               q[3] + CropStart[3]>>)

\* C27: for a bounded file name with pads that are not negative, pads
\* smaller than the margin among them, the map returned has on every axis
\* the extent E - (ps - m) - (pe - m), E the extent of the map of
\* segment_3d: no crop amount acts as an index counted from the end.
C27_ExtentIsPadLessMargin ==
    (e_pc = "done" /\ e_bounded /\ FollowsConvention
        /\ \A k \in 1..6 : EncodedPads[k] >= 0) =>
        \A a \in 1..3 :
            (e_pred_shape[a] - CropStart[a] - CropEnd[a] >= 0) =>
                e_result_shape[a] = e_pred_shape[a] - CropStart[a] - CropEnd[a]

\* C15 as stated: a bounded file name that does not follow the convention
\* (too few tokens, or a token that is no integer where a pad is expected)
\* makes ensemble_segment_3d fail, and no crop values and no prediction map
\* come from it.  The failure the contract calls NameEncodingError is taken
\* to be whichever exception the parse raises (ValueError or IndexError).
C15_MalformedNameRejected ==
    (e_bounded /\ ~FollowsConvention /\ e_pc \in {"done", "raised"}) =>
        /\ e_pc = "raised"
        /\ e_crop = <<>>
        /\ e_result = <<>>
        /\ e_error \in {"ValueError", "IndexError"}

\* the volume is smaller than the input patch on some axis
SmallerThanPatch == \E a \in 1..3 : image_shape[a] < in_tile_shape[a]

\* C16: when the volume is smaller than the patch on any axis, segment_3d
\* fails (an assert, lines 250-253: the failure the contract calls
\* ShapeError) before the planner is called, any tile is cut or the network
\* is run, and it never returns maps.
C16_SmallVolumeFailsBeforeTiling ==
    SmallerThanPatch =>
        /\ pc \in {"start", "assert_failed"}
        /\ out_im_shape = <<>>
        /\ coords = <<>>
        /\ batches = <<>>
        /\ class_output_tiles = <<>>
        /\ class_pred_maps = <<>>
\* segment_3d has failed on a volume smaller than the patch on one axis only
C16_Witness ==
    /\ pc = "assert_failed"
    /\ image_shape[1] >= in_tile_shape[1]
    /\ image_shape[2] >= in_tile_shape[2]
    /\ image_shape[3] < in_tile_shape[3]

\* C17 as stated: when the load of the segmentation fails during a tick the
\* exception is caught: seg_mtime (and with it seg_data and view_state)
\* keeps its value and the next tick is scheduled; and on the tick after a
\* failed load the load is attempted again (it succeeds or fails again) if
\* the file is still there and still newer than seg_mtime or seg_mtime is
\* None.
C17_LoadFailureCaughtAndRetried ==
    [][IsTick =>
          /\ last_check' = "load_raised" =>
                /\ UNCHANGED <<seg_mtime, seg_data, viewer_seg, view_state, tracking>>
                /\ check_timers' > 0
          /\ (last_check = "load_raised" /\ FileNewerThanLoaded) =>
                last_check' \in {"reloaded", "load_raised"}]_vars

\* C18 as stated: with the watch loop running, whenever the client is in
\* LOADING_SEG (seg_mtime None, Next disabled) and a segmentation file is at
\* seg_path, the client eventually is ANNOTATING with Next enabled, by the
\* ticks alone (or the user has left the image meanwhile, which ends the
\* wait).
C18_LoadingSegEnds ==
    (/\ view_state = "LOADING_SEG"
     /\ check_timers > 0
     /\ seg_path # NoPath
     /\ seg_file[seg_path].exists)
        ~> \/ view_state = "ANNOTATING" /\ next_enabled
           \/ view_state # "LOADING_SEG"

\* a run of check() whose listing of the message directory returned
ListingReturned == last_check' # "listdir_raised"
\* what a run of check() does after the messages whatever became of them:
\* the segmentation check runs and the next tick is scheduled
TickGoesOn ==
    /\ check_timers' > 0
    /\ IF FileNewerThanLoaded
       THEN \/ TickReloads /\ next_enabled'
            \/ seg_file[seg_path].partial /\ TickKeeps
       ELSE TickKeeps
\* every file listed is removed, except those whose removal raised
ListedAreRemoved ==
    /\ last_listed' = message_dir
    /\ remove_raised' \subseteq message_dir
    /\ message_dir' = remove_raised'

C20_FinalNameAlwaysComplete ==
    /\ a_files["final"].state # "partial"
    /\ ~a_read_partial

\* a step that is a call of load_model, and how the call ended
IsLoadCall == m_calls' # m_calls
\* the objects that existed before the step
Existing == 1..Len(m_heap)

\* C21: the cache holds at most one entry (a model if and only if a path);
\* the cached object is never in a caller's hands, so no change a caller
\* makes reaches it; every call that returns, hit or miss, returns an object
\* made by that call, other than the cached one; and a hit returns a model
\* equal to the one loaded when the cache was filled.
C21_CallersGetCopies ==
    /\ [](/\ (cached_model = NoModel) <=> (cached_model_path = NoModelPath)
          /\ cached_model \notin m_held
          /\ cached_model # NoModel => m_heap[cached_model] = m_orig)
    /\ [][(IsLoadCall /\ m_last'.kind \in {"hit", "miss"}) =>
             /\ m_last'.id \notin Existing
             /\ m_last'.id # cached_model'
             /\ m_last'.kind = "hit" => m_heap'[m_last'.id] = m_orig
             /\ m_last'.kind = "miss" => m_heap'[m_last'.id] = m_orig']_vars
\* a hit has just returned the model as loaded although a caller has
\* changed the copy it got earlier and the checkpoint file has changed since
C21_Witness ==
    /\ m_last.kind = "hit"
    /\ m_heap[m_last.id] = m_orig
    /\ \E id \in m_held : m_heap[id].path = cached_model_path /\ m_heap[id].steps > 0
    /\ m_disk[cached_model_path] # m_orig.version

\* C30: whenever cached_model_path is a path p, cached_model is the model
\* loaded from p (as it was loaded, unchanged); a call that raises leaves
\* cached_model and cached_model_path as they were; and a call for the
\* cached path returns that model whatever has become of the files.
C30_CacheConsistent ==
    /\ [](\A p \in Paths :
             cached_model_path = p =>
                 /\ cached_model # NoModel
                 /\ m_heap[cached_model].path = p
                 /\ m_heap[cached_model].steps = 0
                 /\ m_heap[cached_model].version = m_orig.version)
    /\ [][IsLoadCall =>
             /\ m_last'.kind = "raised" => UNCHANGED <<cached_model, cached_model_path>>
             /\ m_last'.path = cached_model_path =>
                   /\ m_last'.kind = "hit"
                   /\ m_heap'[m_last'.id].path = cached_model_path
                   /\ m_heap'[m_last'.id].steps = 0
                   /\ m_heap'[m_last'.id].version = m_orig.version]_vars
\* a call has just raised while the cache held the model of another path
C30_Witness ==
    /\ m_last.kind = "raised"
    /\ cached_model_path \in Paths
    /\ m_last.path # cached_model_path
    /\ m_disk[cached_model_path] = 0

\* C22: no voxel of an annotation volume is set in both the background
\* plane and the foreground plane, whatever slices were stored and whatever
\* regions were restricted to.
C22_PlanesExclusive == an_bg \cap an_fg = {}
\* a restriction that turned a foreground voxel into background and a
\* background voxel, enclosed by the kept region, into foreground
C22_Witness ==
    /\ an_last.op = "restricted"
    /\ an_last.removed
    /\ Centre \in an_last.holes
    /\ Far \in an_bg
    /\ Centre \in an_fg

C24_TrainingOnlyWithAnnotationFile ==
    a_mail = "start_training" => (a_annot_path /\ a_files["final"].state # "absent")

\* C25: whenever the client is in view state ANNOTATING, seg_path is set
\* and a segmentation is loaded, whatever navigations, set_seg_loading
\* calls and ticks of the watch loop came before.
C25_AnnotatingHasSegmentation ==
    view_state = "ANNOTATING" =>
        (has_seg_path /\ seg_path # NoPath /\ seg_data # NoSeg)
\* the watch loop loaded the segmentation of the second image, to which the
\* user had moved, and made the client ANNOTATING
C25_Witness ==
    /\ view_state = "ANNOTATING"
    /\ last_check = "reloaded"
    /\ image_path = 2
    /\ seg_path = 2

\* C26: a click on Next or on Previous emits file_change, and with it
\* changes the current image, only when before_change() has returned True.
C26_NavigationOnlyAfterConfirm ==
    nav_last.file_change => nav_last.before_change = "True"

\* C28: however often track_changes is called, at most one check() timer is
\* pending: one chain of ticks at most.
C28_OneCheckChain == check_timers <= 1
\* tracking was started, a tick has run and set the timer again
C28_Witness ==
    /\ tracking
    /\ check_timers = 1
    /\ last_check = "kept"
    /\ view_state = "LOADING_SEG"

\* C29: a new annotation goes to the val directory only when train is not
\* empty and val is empty or train holds at least 5 times as many files as
\* val, and to the train directory otherwise; so, from two empty
\* directories, train <= 5 * val whenever val has a file, and
\* val <= train \div 5 + 1 always.
C29_TrainFiveTimesVal ==
    /\ [](/\ Cardinality(val_annots) >= 1 =>
                Cardinality(train_annots) <= 5 * Cardinality(val_annots)
          /\ Cardinality(val_annots) <= (Cardinality(train_annots) \div 5) + 1)
    /\ [][\A f \in AnnotNames :
            /\ (f \in val_annots' \ val_annots) =>
                  /\ train_annots # {}
                  /\ val_annots = {}
                        \/ Cardinality(train_annots) >= 5 * Cardinality(val_annots)
            /\ (f \in train_annots' \ train_annots) =>
                  ~ /\ train_annots # {}
                    /\ val_annots = {}
                          \/ Cardinality(train_annots) >= 5 * Cardinality(val_annots)]_vars
\* the second file of val, saved when train held five files
C29_Witness ==
    /\ target_last.dir = "val"
    /\ target_last.num_train_annots = 5
    /\ target_last.num_val_annots = 1
    /\ Cardinality(val_annots) = 2

\* the name of the scenario: img_x_10_y_20_z_5_pad_x_3_4_y_1_2_z_0_1.nii.gz
ScenarioName ==
    <<"img", "_", "x", "_", "10", "_", "y", "_", "20", "_", "z", "_", "5", "_", "pad",
      "_", "x", "_", "3", "_", "4", "_", "y", "_", "1", "_", "2", "_", "z", "_", "0",
      "_", "1", ".nii.gz">>

\* C14: for a bounded file name built by the convention from any stem
\* (stems with underscores too), reading from the end gives back exactly the
\* six pads that were put in (ensemble_segment_3d raises nothing) and
\* exactly the original name <stem>.nii.gz (update_file); the scenario's
\* name gives x:(3,4) y:(1,2) z:(0,1) and img.nii.gz.
C14_NameRoundTrip ==
    /\ n_error = "none"
    /\ n_parsed # <<>> => n_parsed = n_pads
    /\ n_original # <<>> => n_original = n_stem \o <<".nii.gz">>
    /\ (n_fname = ScenarioName /\ n_parsed # <<>> /\ n_original # <<>>) =>
           /\ n_parsed = <<3, 4, 1, 2, 0, 1>>
           /\ n_original = <<"img", ".nii.gz">>
\* both readers have read a name whose stem has underscores and whose six
\* pads are those of the scenario
C14_Witness ==
    /\ n_parsed # <<>> /\ n_original # <<>>
    /\ \E i \in 1..Len(n_stem) : n_stem[i] = "_"
    /\ n_pads = <<3, 4, 1, 2, 0, 1>>

\* C9: along each axis of output extent V with output-patch extent P the
\* planner's coordinates are 0, P, 2P, ... while the tile fits, followed,
\* when V is not a multiple of P, by one final tile at V - P: consecutive
\* coordinates advance by exactly P except possibly the last.  For the
\* volume (40,100,100) with patches (20,50,50) -> (10,30,30), padded by the
\* margin as ensemble_segment_3d does, the coordinates are 0, 30, 60, 70 in
\* x and y and 0, 10, 20, 30 in z.
AxisSet(a) == {Along(i, a) : i \in 1..Len(coords)}
Range(f) == {f[i] : i \in DOMAIN f}
ScenarioCoords == PlanCoords(<<50, 120, 120>>, <<20, 50, 50>>, <<10, 30, 30>>)
C9_AxisStepsWithClampedLast ==
    /\ JustPlanned =>
          \A a \in 1..3 :
              LET V == OutExtent(a)
                  P == out_tile_shape[a]
              IN  /\ AxisSet(a) = {k * P : k \in 0..((V \div P) - 1)}
                                    \cup (IF V % P # 0 THEN {V - P} ELSE {})
                  /\ \A c \in AxisSet(a) :
                        \/ \A e \in AxisSet(a) : e <= c
                        \/ c + P \in AxisSet(a)
                        \/ /\ V - P \in AxisSet(a)
                           /\ c < V - P
                           /\ \A e \in AxisSet(a) : e > c => e = V - P
    /\ pc = "start" =>
          /\ {c[1] : c \in Range(ScenarioCoords)} = {0, 30, 60, 70}
          /\ {c[2] : c \in Range(ScenarioCoords)} = {0, 30, 60, 70}
          /\ {c[3] : c \in Range(ScenarioCoords)} = {0, 10, 20, 30}
C9_Witness ==
    /\ JustPlanned
    /\ \E a \in 1..3 : Clamped(a) /\ Cardinality(AxisSet(a)) >= 3

\* C10: round trip.  The output-sized regions taken at the planner's
\* coordinates and scattered back at the same coordinates by
\* reconstruct_from_tiles give exactly the output-space volume: the map
\* segment_3d returns for a class equals the network's output over the whole
\* image, voxel for voxel.
WholeOutput(k) ==
    [p \in Box(<<OutExtent(1), OutExtent(2), OutExtent(3)>>) |->
        ClassValue(k, image[<<p[1] + ((in_tile_shape[1] - out_tile_shape[1]) \div 2),
                              p[2] + ((in_tile_shape[2] - out_tile_shape[2]) \div 2),
                              p[3] + ((in_tile_shape[3] - out_tile_shape[3]) \div 2)>>])]
C10_RoundTrip ==
    pc = "done" =>
        /\ Len(class_pred_maps) = classes
        /\ \A k \in 1..classes : class_pred_maps[k] = WholeOutput(k)
C10_Witness ==
    /\ pc = "done"
    /\ Len(coords) >= 4
    /\ \E a \in 1..3 : Clamped(a)
    /\ \E a \in 1..3 : in_tile_shape[a] - out_tile_shape[a] >= 2

=============================================================================
